---------------------------- MODULE Spec2Model ----------------------------
(***************************************************************************)
(* Model of delta-track's import pipeline.                                 *)
(*                                                                         *)
(*   Spec       TransactionImportService.import_transactions, run against  *)
(*              a SQLAlchemy session (staged objects, commit, rollback)    *)
(*              and the transactions table declared in models.py.          *)
(*   SpecParse  parse_schwab_transactions, run over the rows that          *)
(*              csv.DictReader yields for a Schwab export.                 *)
(*                                                                         *)
(* Python values are tagged pairs <<type, value>> where the code tests the *)
(* type (isinstance(x, Decimal)); a dict key that is missing is "ABSENT",  *)
(* a key that is present with the value None is "None".                    *)
(***************************************************************************)
EXTENDS Integers, Sequences, FiniteSets, TLC

(***************************************************************************)
(* Bounds of the model.                                                    *)
(***************************************************************************)
\* longest record list handed to one import_transactions call
MaxLen == 2
\* number of import_transactions calls in one behaviour
MaxCalls == 2
\* most data rows of one parsed file
MaxRows == 2

VARIABLES
  \* ---- storage (the SQLAlchemy session and the transactions table) ----
  persisted,             \* rows of the transactions table, in insert order
  pending,               \* objects staged with session.add, not yet committed
  \* ---- one import_transactions call ----
  pc,                    \* "idle" | "loop" | "finish" | "returned" | "raised"
  account_id,            \* argument
  data,                  \* argument parsed_transactions_data
  i,                     \* number of records of data examined so far
  created_transactions,  \* local list, line 28
  skipped_count,         \* local counter, line 29
  result,                \* tuple of the values the return statement hands back
  exc,                   \* exception that left the call, "" if none
  \* ---- observation of the call (history) ----
  created_src,           \* for each created transaction, the index of its record
  fate,                  \* for each examined record, "staged" or "skipped"
  addCalls, commitCalls, rollbackCalls,  \* session calls made by this call
  before,                \* the table when the call started
  calls,                 \* calls started so far
  reimport               \* is this call a repeat of the call before it, and the
                         \* table when that first call started

VARIABLES
  \* ---- one parse_schwab_transactions call ----
  rows,                  \* the rows csv.DictReader yields, in file order
  row_idx,               \* number of rows the loop has consumed
  parsed_transactions,   \* local list, line 48
  printed,               \* the lines printed so far
  ppc,                   \* "off" | "loop" | "returned" | "raised"
  rowFate                \* for each consumed row, the kind of its outcome

parseVars == <<rows, row_idx, parsed_transactions, printed, ppc, rowFate>>

impVars == <<persisted, pending, pc, account_id, data, i, created_transactions,
             skipped_count, result, exc, created_src, fate, addCalls,
             commitCalls, rollbackCalls, before, calls, reimport>>

vars == <<impVars, parseVars>>

\* no file is being parsed
ParserOff ==
  /\ rows = <<>>
  /\ row_idx = 0
  /\ parsed_transactions = <<>>
  /\ printed = <<>>
  /\ ppc = "off"
  /\ rowFate = <<>>

-----------------------------------------------------------------------------
(***************************************************************************)
(* models.py: the enumerations and the accounts table.                     *)
(***************************************************************************)
AssetTypeEnum == {"STOCK", "OPTION", "ETF", "MUTUAL_FUND", "CASH"}

ActionTypeEnum == {"BUY", "SELL", "BUY_TO_OPEN", "SELL_TO_OPEN", "BUY_TO_CLOSE",
                   "SELL_TO_CLOSE", "DIVIDEND", "FEE", "INTEREST", "EXERCISE",
                   "ASSIGNMENT", "EXPIRATION"}

\* the action list of line 58
TradeActions == {"BUY", "SELL", "BUY_TO_OPEN", "SELL_TO_OPEN", "BUY_TO_CLOSE",
                 "SELL_TO_CLOSE"}

\* ids of the rows of the accounts table (the import never writes to it)
Accounts == {<<"int", 1>>}

\* values a caller can pass as account_id: None, 0, an existing id, a missing id
AccountArgs == {<<"None", 0>>, <<"int", 0>>, <<"int", 1>>, <<"int", 2>>}

\* Python truthiness of an account_id argument (line 17: `not account_id`)
Falsy(a) == a[1] = "None" \/ a[2] = 0

\* variant: the lookup finds a row for whatever id it is given
QueryAccountAny(a) == a

\* session.query(Account).filter(Account.id == account_id).first()
QueryAccount(a) == IF a \in Accounts THEN a ELSE <<"None", 0>>

-----------------------------------------------------------------------------
(***************************************************************************)
(* Python values of the record fields.                                     *)
(***************************************************************************)
None == <<"None", 0>>
Dec(n) == <<"Decimal", n>>
Absent == <<"ABSENT", 0>>

IsDecimal(x) == x[1] = "Decimal"

\* dict.get(key): a missing key reads as None
Get(x) == IF x = Absent THEN None ELSE x
GetS(s) == IF s = "ABSENT" THEN "None" ELSE s

\* the template the record universe is written from: a complete stock purchase
Stock == [isdict |-> TRUE,
          transaction_date |-> "2023-01-15", ticker |-> "AAPL",
          asset_type |-> "STOCK", action |-> "BUY",
          quantity |-> Dec(10), price |-> Dec(150), fees |-> Dec(1),
          total_amount |-> Dec(-1501),
          option_type |-> "None", option_strike |-> None,
          option_expiry |-> "None", raw_description |-> "Bought AAPL shares"]

\* a complete option sale
Option == [Stock EXCEPT !.transaction_date = "2023-01-16", !.ticker = "MSFT",
           !.asset_type = "OPTION", !.action = "SELL_TO_OPEN",
           !.quantity = Dec(2), !.price = Dec(5), !.fees = Dec(0),
           !.total_amount = Dec(1099),
           !.option_type = "CALL", !.option_strike = Dec(300),
           !.option_expiry = "2024-01-19", !.raw_description = "Sold MSFT Calls"]

\* a dividend as the parser emits it: CASH, quantity 0, price 0
Dividend == [Stock EXCEPT !.asset_type = "CASH", !.action = "DIVIDEND",
             !.quantity = Dec(0), !.price = Dec(0), !.fees = Dec(0),
             !.total_amount = Dec(1), !.raw_description = "APPLE INC"]

\* interest as the parser emits it: CASH, quantity 0, price 0
Interest == [Dividend EXCEPT !.action = "INTEREST", !.ticker = "BANK INT",
             !.raw_description = "BANK INT"]

Records ==
  { Stock, Option, Dividend, Interest,
    \* zero or non-Decimal quantity on a trade
    [Stock EXCEPT !.quantity = Dec(0)],
    [Option EXCEPT !.quantity = Absent],
    \* a trade action on CASH with quantity 0
    [Stock EXCEPT !.asset_type = "CASH", !.quantity = Dec(0)],
    \* options lacking a derivative term
    [Option EXCEPT !.option_type = "ABSENT"],
    [Option EXCEPT !.option_strike = <<"int", 300>>],
    [Option EXCEPT !.option_strike = Dec(0)],
    [Option EXCEPT !.option_expiry = "None"],
    \* an option with a non-trade action and quantity 0
    [Option EXCEPT !.action = "EXPIRATION", !.quantity = Dec(0)],
    \* required keys missing
    [Stock EXCEPT !.transaction_date = "ABSENT"],
    [Stock EXCEPT !.ticker = "ABSENT"],
    [Option EXCEPT !.asset_type = "ABSENT"],
    [Stock EXCEPT !.action = "ABSENT"],
    \* a required key present with the value None
    [Stock EXCEPT !.ticker = "None"],
    \* an element of the list that is not a dict at all
    [Stock EXCEPT !.isdict = FALSE] }

RECURSIVE SeqsUpTo(_, _)
SeqsUpTo(S, n) ==
  IF n = 0 THEN {<<>>}
  ELSE LET shorter == SeqsUpTo(S, n - 1)
       IN  shorter \cup {Append(s, x) : s \in {t \in shorter : Len(t) = n - 1}, x \in S}

\* the record lists a caller can pass
RecordLists == SeqsUpTo(Records, MaxLen)


-----------------------------------------------------------------------------
(***************************************************************************)
(* import_transactions, lines 31-81: what one loop iteration does with one *)
(* record.                                                                 *)
(***************************************************************************)
\* tx_data.get(...) on an element that is not a dict raises AttributeError
RaisesOther(tx) == ~tx.isdict

\* variant: ticker is read with .get, so its absence raises nothing
RaisesKeyErrorButTicker(tx) ==
  /\ tx.isdict
  /\ \/ tx.transaction_date = "ABSENT"
     \/ tx.asset_type = "ABSENT"
     \/ tx.action = "ABSENT"

\* tx_data['transaction_date'], ['ticker'], ['asset_type'], ['action']
RaisesKeyError(tx) ==
  /\ tx.isdict
  /\ \/ tx.transaction_date = "ABSENT"
     \/ tx.ticker = "ABSENT"
     \/ tx.asset_type = "ABSENT"
     \/ tx.action = "ABSENT"

\* x if isinstance(x, Decimal) else Decimal(0)
DecimalOrZero(x) == IF IsDecimal(Get(x)) THEN Get(x) ELSE Dec(0)

\* x if isinstance(x, Decimal) else None
DecimalOrNone(x) == IF IsDecimal(Get(x)) THEN Get(x) ELSE None

\* the Transaction(...) constructor call
NewTransaction(acct, tx) ==
  [account_id       |-> acct,
   transaction_date |-> tx.transaction_date,
   ticker           |-> tx.ticker,
   asset_type       |-> tx.asset_type,
   action           |-> tx.action,
   quantity         |-> DecimalOrZero(tx.quantity),
   price            |-> DecimalOrZero(tx.price),
   fees             |-> DecimalOrZero(tx.fees),
   total_amount     |-> DecimalOrZero(tx.total_amount),
   notes            |-> GetS(tx.raw_description),
   option_type      |-> GetS(tx.option_type),
   strike_price     |-> DecimalOrNone(tx.option_strike),
   expiry_date      |-> GetS(tx.option_expiry)]

\* variant: the quantity test is `< 0` instead of `== 0`
ZeroQuantityRuleNegative(t) ==
  /\ t.action \in TradeActions
  /\ t.quantity[2] < 0
  /\ t.asset_type # "CASH"

\* variant: the rule makes no exception for CASH
ZeroQuantityRuleNoExemption(t) ==
  /\ t.action \in TradeActions
  /\ t.quantity = Dec(0)

\* lines 58-62: a trade with quantity 0 on anything but CASH
ZeroQuantityRule(t) ==
  /\ t.action \in TradeActions
  /\ t.quantity = Dec(0)
  /\ t.asset_type # "CASH"

\* Python's `not x` for the three option columns
NotStr(s) == s = "None" \/ s = ""
NotDec(x) == x = None \/ x = Dec(0)

\* variant: `and` instead of `or`, only an option lacking all three is caught
OptionRuleAll(t) ==
  /\ t.asset_type = "OPTION"
  /\ NotStr(t.option_type)
  /\ NotDec(t.strike_price)
  /\ t.expiry_date = "None"

\* lines 65-69: an option without type, strike or expiry
OptionRule(t) ==
  /\ t.asset_type = "OPTION"
  /\ \/ NotStr(t.option_type)
     \/ NotDec(t.strike_price)
     \/ t.expiry_date = "None"

\* TRUE when the iteration ends in one of the three `skipped_count += 1` branches
Skips(acct, tx) ==
  \/ RaisesOther(tx)
  \/ RaisesKeyError(tx)
  \/ ZeroQuantityRule(NewTransaction(acct, tx))
  \/ OptionRule(NewTransaction(acct, tx))

-----------------------------------------------------------------------------
(***************************************************************************)
(* The storage: session.add, session.commit, session.rollback and the      *)
(* nullable=False columns of the transactions table.                       *)
(***************************************************************************)
\* transactions.transaction_date, ticker, asset_type, action: nullable=False
NotNullOk(t) ==
  /\ t.transaction_date # "None"
  /\ t.ticker # "None"
  /\ t.asset_type # "None"
  /\ t.action # "None"

\* the INSERTs of a flush are accepted by the table
FlushOk(objs) == \A k \in 1..Len(objs) : NotNullOk(objs[k])

\* variant: the session keeps its staged objects newest first
SessionAddFront(pend, obj) == <<obj>> \o pend

\* session.add(obj)
SessionAdd(pend, obj) == Append(pend, obj)

\* variant: the table silently ignores a row equal to one it already holds
RECURSIVE CommitRowsUnique(_, _)
CommitRowsUnique(table, pend) ==
  IF pend = <<>> THEN table
  ELSE IF \E k \in 1..Len(table) : table[k] = Head(pend)
         THEN CommitRowsUnique(table, Tail(pend))
         ELSE CommitRowsUnique(Append(table, Head(pend)), Tail(pend))

\* a commit that succeeds writes every staged object
CommitRows(table, pend) == table \o pend

\* session.rollback(): the staged objects are discarded
SessionRollback(pend) == <<>>

-----------------------------------------------------------------------------
NotAgain == [on |-> FALSE, before |-> <<>>]

\* variant: the function falls off its end and returns nothing
ReturnedNothing(created) == <<>>

\* variant: the function returns the list together with a count
ReturnedWithCount(created) == <<created, 0>>

\* `return []`, `return created_transactions`: the one value handed back
Returned(created) == <<created>>

InitImport ==
  /\ persisted = <<>>
  /\ pending = <<>>
  /\ pc = "idle"
  /\ account_id = None
  /\ data = <<>>
  /\ i = 0
  /\ created_transactions = <<>>
  /\ skipped_count = 0
  /\ result = <<>>
  /\ exc = ""
  /\ created_src = <<>>
  /\ fate = <<>>
  /\ addCalls = 0
  /\ commitCalls = 0
  /\ rollbackCalls = 0
  /\ before = <<>>
  /\ calls = 0
  /\ reimport = NotAgain

\* import_transactions(a, d), lines 16-29: up to the start of the loop
Enter(a, d) ==
  /\ calls < MaxCalls
  /\ calls' = calls + 1
  /\ account_id' = a
  /\ data' = d
  /\ before' = persisted
  /\ i' = 0
  /\ created_transactions' = <<>>
  /\ skipped_count' = 0
  /\ created_src' = <<>>
  /\ fate' = <<>>
  /\ addCalls' = 0
  /\ commitCalls' = 0
  /\ rollbackCalls' = 0
  /\ IF Falsy(a)
       THEN pc' = "raised" /\ exc' = "ValueError: Account ID must be provided"
       ELSE IF QueryAccount(a) = None
         THEN pc' = "raised" /\ exc' = "ValueError: Account not found"
         ELSE /\ exc' = ""
              /\ pc' = IF d = <<>> THEN "returned" ELSE "loop"
  /\ IF ~Falsy(a) /\ QueryAccount(a) # None /\ d = <<>>
       THEN result' = Returned(<<>>)
       ELSE result' = <<>>
  /\ UNCHANGED <<persisted, pending>>
  /\ UNCHANGED parseVars

\* a caller imports a record list into an account
Call(a, d) ==
  /\ pc = "idle"
  /\ Enter(a, d)
  /\ reimport' = NotAgain

\* a caller whose import was committed imports the same list into the same
\* account once more
Reimport ==
  /\ pc = "returned"
  /\ commitCalls = 1
  /\ Enter(account_id, data)
  /\ reimport' = [on |-> TRUE, before |-> before]

\* one iteration of the for loop, lines 31-81
ProcessRecord ==
  /\ pc = "loop"
  /\ i < Len(data)
  /\ LET tx == data[i + 1]
     IN  IF Skips(account_id, tx)
           THEN /\ skipped_count' = skipped_count + 1
                /\ fate' = Append(fate, "skipped")
                /\ UNCHANGED <<pending, created_transactions, created_src, addCalls>>
           ELSE /\ pending' = SessionAdd(pending, NewTransaction(account_id, tx))
                /\ created_transactions' =
                     Append(created_transactions, NewTransaction(account_id, tx))
                /\ created_src' = Append(created_src, i + 1)
                /\ addCalls' = addCalls + 1
                /\ fate' = Append(fate, "staged")
                /\ UNCHANGED skipped_count
  /\ i' = i + 1
  /\ pc' = IF i + 1 = Len(data) THEN "finish" ELSE "loop"
  /\ UNCHANGED <<persisted, account_id, data, result, exc, commitCalls,
                 rollbackCalls, before, calls, reimport>>
  /\ UNCHANGED parseVars

\* variant: an empty created list is committed all the same
NoneCreatedCommits ==
  /\ pc = "finish"
  /\ created_transactions = <<>>
  /\ pc' = "returned"
  /\ result' = Returned(<<>>)
  /\ commitCalls' = commitCalls + 1
  /\ UNCHANGED <<persisted, pending, account_id, data, i, created_transactions,
                 skipped_count, exc, created_src, fate, addCalls,
                 rollbackCalls, before, calls, reimport>>
  /\ UNCHANGED parseVars

\* lines 87-89: nothing was created
NoneCreated ==
  /\ pc = "finish"
  /\ created_transactions = <<>>
  /\ pc' = "returned"
  /\ result' = Returned(<<>>)
  /\ UNCHANGED <<persisted, pending, account_id, data, i, created_transactions,
                 skipped_count, exc, created_src, fate, addCalls, commitCalls,
                 rollbackCalls, before, calls, reimport>>
  /\ UNCHANGED parseVars

\* lines 91-94: session.commit() succeeds
CommitOk ==
  /\ pc = "finish"
  /\ created_transactions # <<>>
  /\ FlushOk(pending)
  /\ commitCalls' = commitCalls + 1
  /\ persisted' = CommitRows(persisted, pending)
  /\ pending' = <<>>
  /\ pc' = "returned"
  /\ result' = Returned(created_transactions)
  /\ UNCHANGED <<account_id, data, i, created_transactions, skipped_count, exc,
                 created_src, fate, addCalls, rollbackCalls, before, calls, reimport>>
  /\ UNCHANGED parseVars

\* variant: the except branch re-raises without calling rollback
CommitFailNoRollback ==
  /\ pc = "finish"
  /\ created_transactions # <<>>
  /\ commitCalls' = commitCalls + 1
  /\ pc' = "raised"
  /\ \/ ~FlushOk(pending) /\ exc' = "IntegrityError"
     \/ exc' = "OperationalError"
  /\ UNCHANGED <<persisted, pending, account_id, data, i, created_transactions,
                 skipped_count, result, created_src, fate, addCalls, before,
                 calls, reimport, rollbackCalls>>
  /\ UNCHANGED parseVars

\* lines 91-100: session.commit() raises, because a staged row violates a
\* NOT NULL column or because the database fails; rollback, then re-raise
CommitFail ==
  /\ pc = "finish"
  /\ created_transactions # <<>>
  /\ commitCalls' = commitCalls + 1
  /\ rollbackCalls' = rollbackCalls + 1
  /\ pending' = SessionRollback(pending)
  /\ pc' = "raised"
  /\ \/ ~FlushOk(pending) /\ exc' = "IntegrityError"
     \/ exc' = "OperationalError"
  /\ UNCHANGED <<persisted, account_id, data, i, created_transactions,
                 skipped_count, result, created_src, fate, addCalls, before,
                 calls, reimport>>
  /\ UNCHANGED parseVars

\* scripts/import_csv.py, lines 102-107: the caller is done with the call and
\* closes the session; the call's locals are gone
Close ==
  /\ pc \in {"returned", "raised"}
  /\ pc' = "idle"
  /\ reimport' = NotAgain
  /\ account_id' = None
  /\ data' = <<>>
  /\ i' = 0
  /\ created_transactions' = <<>>
  /\ skipped_count' = 0
  /\ result' = <<>>
  /\ exc' = ""
  /\ created_src' = <<>>
  /\ fate' = <<>>
  /\ addCalls' = 0
  /\ commitCalls' = 0
  /\ rollbackCalls' = 0
  /\ before' = <<>>
  /\ pending' = <<>>
  /\ UNCHANGED <<persisted, calls>>
  /\ UNCHANGED parseVars

Next ==
  \/ \E a \in AccountArgs, d \in RecordLists : Call(a, d)
  \/ Reimport
  \/ ProcessRecord
  \/ NoneCreated
  \/ CommitOk
  \/ CommitFail
  \/ Close

\* the importer starts with an empty session; the parser takes no part
Init == InitImport /\ ParserOff

Spec == Init /\ [][Next]_vars

-----------------------------------------------------------------------------
(***************************************************************************)
(* Properties of import_transactions.                                      *)
(***************************************************************************)
\* indices of the records of data the loop has examined
Examined == 1..Len(fate)

\* indices of the records a created transaction was built from
StagedIdx == {created_src[k] : k \in 1..Len(created_src)}

\* the record was rejected: its iteration counted it and staged nothing
Rejected(j) == fate[j] = "skipped" /\ j \notin StagedIdx

\* the account argument does not resolve: None, 0, or no such row
BadAccount(a) == a[1] = "None" \/ a[2] = 0 \/ a \notin Accounts

AccountErrors == {"ValueError: Account ID must be provided",
                  "ValueError: Account not found"}

\* skipped_count counts exactly the iterations that rejected their record
CountsSkipped == skipped_count = Cardinality({j \in Examined : fate[j] = "skipped"})

\* the transactions the loop creates from a whole list, in order
RECURSIVE Accepted(_, _)
Accepted(acct, d) ==
  IF d = <<>> THEN <<>>
  ELSE IF Skips(acct, Head(d))
         THEN Accepted(acct, Tail(d))
         ELSE <<NewTransaction(acct, Head(d))>> \o Accepted(acct, Tail(d))

\* C1: when session.commit() raises, the call has made exactly one commit
\* and exactly one rollback, it ends by raising that failure, and no record
\* staged by the batch is in the table or left in the session: the table is
\* what it was when the call started.
C1_CommitFailureRollsBack ==
  (pc = "raised" /\ commitCalls > 0) =>
    /\ commitCalls = 1
    /\ rollbackCalls = 1
    /\ exc \in {"IntegrityError", "OperationalError"}
    /\ result = <<>>
    /\ persisted = before
    /\ pending = <<>>

C1_Witness ==
  /\ pc = "raised"
  /\ commitCalls = 1
  /\ exc = "OperationalError"
  /\ Len(created_transactions) = 2
  /\ before # <<>>

\* C2: when account_id is None or 0, or names no row of accounts, the call
\* raises a ValueError before the loop: no record is examined, add, commit
\* and rollback are never called, and the table is unchanged, for every
\* record list.
C2_BadAccountFailsFast ==
  (pc # "idle" /\ BadAccount(account_id)) =>
    /\ pc = "raised"
    /\ exc \in AccountErrors
    /\ i = 0
    /\ fate = <<>>
    /\ created_transactions = <<>>
    /\ addCalls = 0
    /\ commitCalls = 0
    /\ rollbackCalls = 0
    /\ pending = <<>>
    /\ persisted = before

C2_Witness ==
  /\ pc = "raised"
  /\ account_id = <<"int", 2>>
  /\ exc = "ValueError: Account not found"
  /\ Len(data) >= 2
  /\ \E k \in 1..Len(data) : ~Skips(<<"int", 1>>, data[k])
  /\ before # <<>>

\* a record with one of the six trade actions and quantity Decimal(0)
ZeroQuantityTrade(tx) ==
  /\ tx.isdict
  /\ tx.action \in TradeActions
  /\ tx.quantity = Dec(0)

OptionLacksTerm(tx) ==
  /\ tx.isdict
  /\ tx.asset_type = "OPTION"
  /\ \/ GetS(tx.option_type) = "None"
     \/ Get(tx.option_strike) = None
     \/ GetS(tx.option_expiry) = "None"

\* the row has all three derivative terms
HasAllTerms(t) ==
  /\ t.option_type # "None"
  /\ t.strike_price # None
  /\ t.expiry_date # "None"

\* C4: every examined OPTION record lacking option_type, strike or expiry is
\* counted as skipped and never staged, and every OPTION row staged, returned
\* or in the table has all three terms.
C4_IncompleteOptionRejected ==
  /\ CountsSkipped
  /\ \A j \in Examined : OptionLacksTerm(data[j]) => Rejected(j)
  /\ \A k \in 1..Len(pending) :
       pending[k].asset_type = "OPTION" => HasAllTerms(pending[k])
  /\ \A k \in 1..Len(persisted) :
       persisted[k].asset_type = "OPTION" => HasAllTerms(persisted[k])
  /\ pc = "returned" =>
       \A k \in 1..Len(result[1]) :
         result[1][k].asset_type = "OPTION" => HasAllTerms(result[1][k])

C4_Witness ==
  /\ pc = "returned"
  /\ commitCalls = 1
  /\ Len(data) = 2
  /\ OptionLacksTerm(data[1])
  /\ data[1].option_type = "CALL" /\ data[1].option_strike = Dec(300)
  /\ fate = <<"skipped", "staged">>
  /\ persisted[Len(persisted)].asset_type = "OPTION"

\* C5 as claimed: the call raises only for a missing account id, an unknown
\* account or a database failure at commit, never because of what one record
\* holds, and once the account resolves every record is examined.
C5_Original ==
  /\ pc = "raised" => exc \in AccountErrors \cup {"OperationalError"}
  /\ (pc \in {"finish", "returned", "raised"} /\ ~BadAccount(account_id)) =>
       Len(fate) = Len(data)

LacksRequiredKey(tx) ==
  /\ tx.isdict
  /\ "ABSENT" \in {tx.transaction_date, tx.ticker, tx.asset_type, tx.action}

\* C7: every examined record lacking transaction_date, ticker, asset_type or
\* action is counted as skipped and never staged, and the loop goes on: when
\* it is left every record of the list has been examined.
C7_MissingKeyRejected ==
  /\ CountsSkipped
  /\ \A j \in Examined : LacksRequiredKey(data[j]) => Rejected(j)
  /\ (pc \in {"finish", "returned", "raised"} /\ ~BadAccount(account_id)) =>
       Len(fate) = Len(data)
  /\ pc = "loop" => Len(fate) = i /\ i < Len(data)

C7_Witness ==
  /\ pc = "returned"
  /\ commitCalls = 1
  /\ Len(data) = 2
  /\ data[1].ticker = "ABSENT"
  /\ fate = <<"skipped", "staged">>
  /\ persisted = before \o <<NewTransaction(account_id, data[2])>>

C9_ReimportDuplicates ==
  (reimport.on /\ pc = "returned") =>
    /\ commitCalls = 1
    /\ result = <<Accepted(account_id, data)>>
    /\ before = reimport.before \o Accepted(account_id, data)
    /\ persisted =
         reimport.before \o Accepted(account_id, data) \o Accepted(account_id, data)
    /\ Len(persisted) = Len(reimport.before) + 2 * Len(created_transactions)

C9_Witness ==
  /\ reimport.on
  /\ pc = "returned"
  /\ Len(data) = 2
  /\ fate = <<"staged", "skipped">>
  /\ Len(persisted) = 2
  /\ persisted[1] = persisted[2]

-----------------------------------------------------------------------------
(***************************************************************************)
(* Text.  A Python str is a sequence of one-character strings, so that the *)
(* parser's string operations (strip, lower, replace, startswith, the two  *)
(* regular expressions, strptime, Decimal(...)) are computed on the        *)
(* characters.                                                             *)
(***************************************************************************)
UpperLetters == <<"A", "B", "C", "D", "E", "F", "G", "H", "I", "J", "K", "L", "M", "N", "O", "P", "Q", "R", "S", "T", "U", "V", "W", "X", "Y", "Z">>
LowerLetters == <<"a", "b", "c", "d", "e", "f", "g", "h", "i", "j", "k", "l", "m", "n", "o", "p", "q", "r", "s", "t", "u", "v", "w", "x", "y", "z">>
DigitChars == <<"0", "1", "2", "3", "4", "5", "6", "7", "8", "9">>

IsUpper(c) == \E k \in 1..26 : UpperLetters[k] = c
IsLower(c) == \E k \in 1..26 : LowerLetters[k] = c
IsDigit(c) == \E k \in 1..10 : DigitChars[k] = c
\* str.strip() and the regex class \s
IsSpace(c) == c \in {" ", "\t"}

DigitVal(c) == (CHOOSE k \in 1..10 : DigitChars[k] = c) - 1

\* str.lower(), str.upper() on one character
LowerChar(c) == IF IsUpper(c) THEN LowerLetters[CHOOSE k \in 1..26 : UpperLetters[k] = c] ELSE c
UpperChar(c) == IF IsLower(c) THEN UpperLetters[CHOOSE k \in 1..26 : LowerLetters[k] = c] ELSE c

Lower(s) == [k \in 1..Len(s) |-> LowerChar(s[k])]
Upper(s) == [k \in 1..Len(s) |-> UpperChar(s[k])]

\* s[p:] with p counted from 1
From(s, p) == SubSeq(s, p, Len(s))

RECURSIVE LStrip(_)
LStrip(s) == IF s # <<>> /\ IsSpace(Head(s)) THEN LStrip(Tail(s)) ELSE s

RECURSIVE RStrip(_)
RStrip(s) ==
  IF s # <<>> /\ IsSpace(s[Len(s)]) THEN RStrip(SubSeq(s, 1, Len(s) - 1)) ELSE s

\* str.strip()
Strip(s) == RStrip(LStrip(s))

\* str.startswith(pre), str.endswith(suf)
StartsWith(s, pre) == Len(s) >= Len(pre) /\ SubSeq(s, 1, Len(pre)) = pre
EndsWith(s, suf) == Len(s) >= Len(suf) /\ SubSeq(s, Len(s) - Len(suf) + 1, Len(s)) = suf

\* sub in s
Contains(s, sub) == \E p \in 1..(Len(s) + 1) : StartsWith(From(s, p), sub)

\* str.replace(c, "") for a single character c
RECURSIVE RemoveChar(_, _)
RemoveChar(s, c) ==
  IF s = <<>> THEN <<>>
  ELSE IF Head(s) = c THEN RemoveChar(Tail(s), c)
       ELSE <<Head(s)>> \o RemoveChar(Tail(s), c)

\* str.replace(sub, "") for a non-empty sub
RECURSIVE RemoveSub(_, _)
RemoveSub(s, sub) ==
  IF s = <<>> THEN <<>>
  ELSE IF StartsWith(s, sub) THEN RemoveSub(From(s, Len(sub) + 1), sub)
       ELSE <<Head(s)>> \o RemoveSub(Tail(s), sub)

\* str.split(c): the pieces between the occurrences of c
RECURSIVE Split(_, _)
Split(s, c) ==
  IF ~\E k \in 1..Len(s) : s[k] = c THEN <<s>>
  ELSE LET k == CHOOSE m \in 1..Len(s) : s[m] = c /\ \A n \in 1..(m - 1) : s[n] # c
       IN  <<SubSeq(s, 1, k - 1)>> \o Split(From(s, k + 1), c)

\* the character classes of the two regular expressions
UpperSet == {UpperLetters[k] : k \in 1..26}
DigitSet == {DigitChars[k] : k \in 1..10}
SpaceSet == {" ", "\t"}

\* length of the longest run of characters of the class that starts at s[p]
RECURSIVE Run(_, _, _)
Run(s, p, class) ==
  IF p <= Len(s) /\ s[p] \in class THEN 1 + Run(s, p + 1, class) ELSE 0

AllDigits(s) == \A k \in 1..Len(s) : IsDigit(s[k])

\* the number a string of digits denotes
RECURSIVE ToNat(_)
ToNat(s) == IF s = <<>> THEN 0 ELSE 10 * ToNat(SubSeq(s, 1, Len(s) - 1)) + DigitVal(s[Len(s)])

-----------------------------------------------------------------------------
(***************************************************************************)
(* decimal.Decimal and datetime.date values, and the conversions from text *)
(* the parser uses.  A finite Decimal is sign, coefficient and number of    *)
(* fractional digits, as Decimal(str) keeps them ("135.50" is 13550 with   *)
(* scale 2, "1E+2" is 1 with scale -2); the special values are Infinity,   *)
(* NaN and sNaN, the last two with their payload as coefficient.           *)
(***************************************************************************)
Decimal(neg, coef, scale) == [t |-> "Decimal", kind |-> "finite", neg |-> neg, coef |-> coef, scale |-> scale]
Special(kind, neg, payload) == [t |-> "Decimal", kind |-> kind, neg |-> neg, coef |-> payload, scale |-> 0]
NoDecimal == [t |-> "None", kind |-> "None", neg |-> FALSE, coef |-> 0, scale |-> 0]
Zero == Decimal(FALSE, 0, 0)

\* Decimal.copy_abs()
CopyAbs(x) == [x EXCEPT !.neg = FALSE]

\* bool(Decimal): a zero of either sign is falsy, a special value is truthy
Truthy(x) == x.kind # "finite" \/ x.coef # 0

Date(y, m, d) == [t |-> "date", y |-> y, m |-> m, d |-> d]
NoDate == [t |-> "None", y |-> 0, m |-> 0, d |-> 0]

\* the result of a call that may raise
Ok(v) == [raises |-> FALSE, val |-> v]
Raise(v) == [raises |-> TRUE, val |-> v]

\* the exponent part of a number: [sign] digits
ExponentOf(e) ==
  IF e # <<>> /\ e[1] \in {"+", "-"}
    THEN [ok |-> Len(e) >= 2 /\ AllDigits(Tail(e)),
          val |-> IF e[1] = "-" THEN 0 - ToNat(Tail(e)) ELSE ToNat(Tail(e))]
    ELSE [ok |-> e # <<>> /\ AllDigits(e), val |-> ToNat(e)]

\* a finite number: digits [. [digits]] or . digits, then the exponent
FiniteOf(neg, mantissa, exponent) ==
  IF /\ Len(Split(mantissa, ".")) \in {1, 2}
     /\ RemoveChar(mantissa, ".") # <<>>
     /\ AllDigits(RemoveChar(mantissa, "."))
     /\ exponent.ok
    THEN Ok(Decimal(neg, ToNat(RemoveChar(mantissa, ".")),
                    (IF Len(Split(mantissa, ".")) = 2 THEN Len(Split(mantissa, ".")[2]) ELSE 0)
                      - exponent.val))
    ELSE Raise(Zero)

\* the value of an unsigned text, in lower case, split at "e"
UnsignedOf(neg, body, parts) ==
  IF body = <<"i", "n", "f">> \/ body = <<"i", "n", "f", "i", "n", "i", "t", "y">> THEN Ok(Special("Infinity", neg, 0))
  ELSE IF StartsWith(body, <<"n", "a", "n">>) /\ AllDigits(From(body, 4))
    THEN Ok(Special("NaN", neg, ToNat(From(body, 4))))
  ELSE IF StartsWith(body, <<"s", "n", "a", "n">>) /\ AllDigits(From(body, 5))
    THEN Ok(Special("sNaN", neg, ToNat(From(body, 5))))
  ELSE IF Len(parts) = 1 THEN FiniteOf(neg, parts[1], [ok |-> TRUE, val |-> 0])
  ELSE IF Len(parts) = 2 THEN FiniteOf(neg, parts[1], ExponentOf(parts[2]))
  ELSE Raise(Zero)

\* the value of a text without surrounding blanks and underscores
SignedOf(u) ==
  IF u # <<>> /\ u[1] \in {"+", "-"}
    THEN UnsignedOf(u[1] = "-", Lower(Tail(u)), Split(Lower(Tail(u)), "e"))
    ELSE UnsignedOf(FALSE, Lower(u), Split(Lower(u), "e"))

\* Decimal(s): surrounding whitespace and underscores are ignored; the text
\* is [sign] then a number with an optional exponent, or Inf, Infinity,
\* NaN or sNaN with optional payload digits, in any letter case; anything
\* else raises InvalidOperation
DecimalOf(s) == SignedOf(RemoveChar(Strip(s), "_"))

\* try: a except: b
OrElse(a, b) == IF a.raises THEN b ELSE a

\* parse_schwab_decimal, lines 12-22.  Line 17 is outside the try: a
\* parenthesised text that is no number raises InvalidOperation
parse_schwab_decimal(value_str) ==
  IF value_str = <<>> THEN Ok(Zero)
  ELSE LET v == RemoveChar(RemoveChar(value_str, "$"), ",")
       IN  IF StartsWith(v, <<"(">>) /\ EndsWith(v, <<")">>)
             THEN DecimalOf(<<"-">> \o SubSeq(v, 2, Len(v) - 1))
             ELSE OrElse(DecimalOf(v), Ok(Zero))

IsLeap(y) == (y % 4 = 0 /\ y % 100 # 0) \/ y % 400 = 0

DaysIn(m, y) ==
  IF m = 2 THEN (IF IsLeap(y) THEN 29 ELSE 28)
  ELSE IF m \in {4, 6, 9, 11} THEN 30 ELSE 31

\* the fields %m and %d accept: one or two digits
IsField12(s) == Len(s) \in {1, 2} /\ AllDigits(s)

\* datetime.strptime(s, "%m/%d/%Y").date() when fourDigit, and
\* datetime.strptime(s, "%m/%d/%y").date() otherwise; raises ValueError when
\* the text does not match the format or names no calendar day
Strptime(s, fourDigit) ==
  LET parts == Split(s, "/")
      m == ToNat(parts[1])
      d == ToNat(parts[2])
      yy == ToNat(parts[3])
      y == IF fourDigit THEN yy ELSE IF yy <= 68 THEN 2000 + yy ELSE 1900 + yy
  IN  IF /\ Len(parts) = 3
         /\ IsField12(parts[1]) /\ IsField12(parts[2])
         /\ AllDigits(parts[3])
         /\ Len(parts[3]) = (IF fourDigit THEN 4 ELSE 2)
         /\ m \in 1..12
         /\ y >= 1
         /\ d \in 1..DaysIn(m, y)
        THEN Ok(Date(y, m, d))
        ELSE Raise(NoDate)

\* lines 102-105 and 121-124: four-digit year first, two-digit year second
ExpiryOf(s) == OrElse(Strptime(s, TRUE), Strptime(s, FALSE))

-----------------------------------------------------------------------------
(***************************************************************************)
(* schwab_transactions_parser.py: the action table, the skip list and the  *)
(* two regular expressions.                                                *)
(***************************************************************************)
\* variant: the label is looked up whatever its letter case
ACTION_MAP_AnyCase(label) ==
  CASE Lower(label) = <<"b", "u", "y">> -> "BUY"
    [] Lower(label) = <<"s", "e", "l", "l">> -> "SELL"
    [] Lower(label) = <<"s", "e", "l", "l", " ", "t", "o", " ", "o", "p", "e", "n">> -> "SELL_TO_OPEN"
    [] Lower(label) = <<"b", "u", "y", " ", "t", "o", " ", "o", "p", "e", "n">> -> "BUY_TO_OPEN"
    [] Lower(label) = <<"s", "e", "l", "l", " ", "t", "o", " ", "c", "l", "o", "s", "e">> -> "SELL_TO_CLOSE"
    [] Lower(label) = <<"b", "u", "y", " ", "t", "o", " ", "c", "l", "o", "s", "e">> -> "BUY_TO_CLOSE"
    [] Lower(label) = <<"q", "u", "a", "l", "i", "f", "i", "e", "d", " ", "d", "i", "v", "i", "d", "e", "n", "d">> -> "DIVIDEND"
    [] Lower(label) = <<"c", "a", "s", "h", " ", "d", "i", "v", "i", "d", "e", "n", "d">> -> "DIVIDEND"
    [] Lower(label) = <<"i", "n", "t", "e", "r", "e", "s", "t", " ", "i", "n", "c", "o", "m", "e">> -> "INTEREST"
    [] OTHER -> "None"

\* ACTION_MAP.get(raw_action), lines 27-40 and 56
ACTION_MAP(label) ==
  CASE label = <<"B", "u", "y">> -> "BUY"
    [] label = <<"S", "e", "l", "l">> -> "SELL"
    [] label = <<"S", "e", "l", "l", " ", "t", "o", " ", "O", "p", "e", "n">> -> "SELL_TO_OPEN"
    [] label = <<"B", "u", "y", " ", "t", "o", " ", "O", "p", "e", "n">> -> "BUY_TO_OPEN"
    [] label = <<"S", "e", "l", "l", " ", "t", "o", " ", "C", "l", "o", "s", "e">> -> "SELL_TO_CLOSE"
    [] label = <<"B", "u", "y", " ", "t", "o", " ", "C", "l", "o", "s", "e">> -> "BUY_TO_CLOSE"
    [] label = <<"Q", "u", "a", "l", "i", "f", "i", "e", "d", " ", "D", "i", "v", "i", "d", "e", "n", "d">> -> "DIVIDEND"
    [] label = <<"C", "a", "s", "h", " ", "D", "i", "v", "i", "d", "e", "n", "d">> -> "DIVIDEND"
    [] label = <<"I", "n", "t", "e", "r", "e", "s", "t", " ", "I", "n", "c", "o", "m", "e">> -> "INTEREST"
    [] OTHER -> "None"

\* the list of line 59
SkipLabels ==
  { \* moneylink transfer
    <<"m", "o", "n", "e", "y", "l", "i", "n", "k", " ", "t", "r", "a", "n", "s", "f", "e", "r">>,
    \* journal
    <<"j", "o", "u", "r", "n", "a", "l">>,
    \* service fee
    <<"s", "e", "r", "v", "i", "c", "e", " ", "f", "e", "e">>,
    \* funds received
    <<"f", "u", "n", "d", "s", " ", "r", "e", "c", "e", "i", "v", "e", "d">>,
    \* funds paid
    <<"f", "u", "n", "d", "s", " ", "p", "a", "i", "d">>,
    \* dividend paid
    <<"d", "i", "v", "i", "d", "e", "n", "d", " ", "p", "a", "i", "d">>,
    \* adjustment
    <<"a", "d", "j", "u", "s", "t", "m", "e", "n", "t">>,
    \* bank interest
    <<"b", "a", "n", "k", " ", "i", "n", "t", "e", "r", "e", "s", "t">>,
    \* atm withdrawal
    <<"a", "t", "m", " ", "w", "i", "t", "h", "d", "r", "a", "w", "a", "l">>,
    \* bill pay
    <<"b", "i", "l", "l", " ", "p", "a", "y">>,
    \* check paid
    <<"c", "h", "e", "c", "k", " ", "p", "a", "i", "d">>,
    \* client requested electronic funding receipt (pull)
    <<"c", "l", "i", "e", "n", "t", " ", "r", "e", "q", "u", "e", "s", "t", "e", "d", " ", "e", "l", "e", "c", "t", "r", "o", "n", "i", "c", " ", "f", "u", "n", "d", "i", "n", "g", " ", "r", "e", "c", "e", "i", "p", "t", " ", "(", "p", "u", "l", "l", ")">>,
    \* client requested electronic funding disbursement (push)
    <<"c", "l", "i", "e", "n", "t", " ", "r", "e", "q", "u", "e", "s", "t", "e", "d", " ", "e", "l", "e", "c", "t", "r", "o", "n", "i", "c", " ", "f", "u", "n", "d", "i", "n", "g", " ", "d", "i", "s", "b", "u", "r", "s", "e", "m", "e", "n", "t", " ", "(", "p", "u", "s", "h", ")">>,
    \* dividend reinvestment
    <<"d", "i", "v", "i", "d", "e", "n", "d", " ", "r", "e", "i", "n", "v", "e", "s", "t", "m", "e", "n", "t">>,
    \* funds transfer
    <<"f", "u", "n", "d", "s", " ", "t", "r", "a", "n", "s", "f", "e", "r">>,
    \* tax payment
    <<"t", "a", "x", " ", "p", "a", "y", "m", "e", "n", "t">>,
    \* wire transfer incoming
    <<"w", "i", "r", "e", " ", "t", "r", "a", "n", "s", "f", "e", "r", " ", "i", "n", "c", "o", "m", "i", "n", "g">>,
    \* wire transfer outgoing
    <<"w", "i", "r", "e", " ", "t", "r", "a", "n", "s", "f", "e", "r", " ", "o", "u", "t", "g", "o", "i", "n", "g">> }

\* variant: the label is compared with the list as it is written
ListedExact(raw_action) == raw_action \in SkipLabels

\* line 59: raw_action.lower() is in the list
Listed(raw_action) == Lower(raw_action) \in SkipLabels

\* the open and close actions of line 88
OptionActions == {"SELL_TO_OPEN", "BUY_TO_OPEN", "SELL_TO_CLOSE", "BUY_TO_CLOSE"}

NoMatch == [matched |-> FALSE, g1 |-> <<>>, g2 |-> <<>>, g3 |-> <<>>, g4 |-> <<>>]

\* one step of a pattern: pass over `skip` characters, then take the longest
\* run of characters of `class`
Step(skip, class) == [skip |-> skip, class |-> class]

\* the runs the steps of a pattern take from position p of s, in order
RECURSIVE Runs(_, _, _)
Runs(s, p, steps) ==
  IF steps = <<>> THEN <<>>
  ELSE LET n == Run(s, p + steps[1].skip, steps[1].class)
       IN  <<[start |-> p + steps[1].skip, n |-> n]>>
             \o Runs(s, p + steps[1].skip + n, Tail(steps))

\* the position after a run, the text of a run, the character at a position
End(run) == run.start + run.n
Span(s, run) == SubSeq(s, run.start, run.start + run.n - 1)
CharAt(s, p, c) == p <= Len(s) /\ s[p] = c

\* OPTION_SYMBOL_REGEX, line 25, as steps:
\*   ([A-Z]+)\s+(\d{1,2}/\d{1,2}/\d{2,4})\s+([\d\.]+)\s+([CP])
SymbolSteps ==
  << Step(0, UpperSet), Step(0, SpaceSet),
     Step(0, DigitSet), Step(1, DigitSet), Step(1, DigitSet),
     Step(0, SpaceSet), Step(0, DigitSet \cup {"."}), Step(0, SpaceSet) >>

\* the match of OPTION_SYMBOL_REGEX whose steps took the runs r of s
SymbolMatch(s, r) ==
  IF /\ r[1].n >= 1 /\ r[2].n >= 1
     /\ r[3].n \in 1..2 /\ CharAt(s, End(r[3]), "/")
     /\ r[4].n \in 1..2 /\ CharAt(s, End(r[4]), "/")
     /\ r[5].n \in 2..4
     /\ r[6].n >= 1 /\ r[7].n >= 1 /\ r[8].n >= 1
     /\ (CharAt(s, End(r[8]), "C") \/ CharAt(s, End(r[8]), "P"))
    THEN [matched |-> TRUE,
          g1 |-> Span(s, r[1]),
          g2 |-> SubSeq(s, r[3].start, End(r[5]) - 1),
          g3 |-> Span(s, r[7]),
          g4 |-> <<s[End(r[8])]>>]
    ELSE NoMatch

\* OPTION_SYMBOL_REGEX.match(s): anchored at the start of s, free at its
\* end.  Every repetition is followed by a character outside its class, so
\* each takes its longest run.
OptionSymbolMatch(s) == SymbolMatch(s, Runs(s, 1, SymbolSteps))

\* OPTION_DESC_REGEX, line 24, after its keyword, as steps:
\*   \s+([A-Z\s.]+?)\s+\$(\d+\.\d{2,})\s+EXP\s+(\d{1,2}/\d{1,2}/\d{2,4})
\* The name and the blanks around it are the run of [A-Z\s.] that ends at
\* the "$"; the lazy name stops at the run's last character that is not a
\* blank, so the group stripped is the run stripped.
DescSteps ==
  << Step(0, UpperSet \cup SpaceSet \cup {"."}),
     Step(1, DigitSet), Step(1, DigitSet),
     Step(0, SpaceSet), Step(3, SpaceSet),
     Step(0, DigitSet), Step(1, DigitSet), Step(1, DigitSet) >>

\* the length of the keyword (CALL|PUT) at position p of s, 0 when neither
Keyword(s, p) ==
  IF StartsWith(From(s, p), <<"C", "A", "L", "L">>) THEN 4
  ELSE IF StartsWith(From(s, p), <<"P", "U", "T">>) THEN 3
  ELSE 0

\* the match of OPTION_DESC_REGEX at position p of s whose keyword has
\* length kw and whose steps took the runs r
DescMatch(s, p, kw, r) ==
  IF /\ kw > 0
     /\ r[1].n >= 3 /\ IsSpace(s[r[1].start]) /\ IsSpace(s[End(r[1]) - 1])
     /\ CharAt(s, End(r[1]), "$")
     /\ r[2].n >= 1 /\ CharAt(s, End(r[2]), ".")
     /\ r[3].n >= 2
     /\ r[4].n >= 1 /\ StartsWith(From(s, End(r[4])), <<"E", "X", "P">>)
     /\ r[5].n >= 1
     /\ r[6].n \in 1..2 /\ CharAt(s, End(r[6]), "/")
     /\ r[7].n \in 1..2 /\ CharAt(s, End(r[7]), "/")
     /\ r[8].n >= 2
    THEN [matched |-> TRUE,
          g1 |-> SubSeq(s, p, p + kw - 1),
          g2 |-> Strip(Span(s, r[1])),
          g3 |-> SubSeq(s, r[2].start, End(r[3]) - 1),
          g4 |-> SubSeq(s, r[6].start,
                        r[8].start + (IF r[8].n > 4 THEN 4 ELSE r[8].n) - 1)]
    ELSE NoMatch

\* OPTION_DESC_REGEX tried at position p of s
OptionDescMatchAt(s, p) ==
  DescMatch(s, p, Keyword(s, p), Runs(s, p + Keyword(s, p), DescSteps))

\* OPTION_DESC_REGEX.search(s): the match at the leftmost position that has one
OptionDescSearch(s) ==
  IF \E p \in 1..Len(s) : OptionDescMatchAt(s, p).matched
    THEN OptionDescMatchAt(s,
           CHOOSE p \in 1..Len(s) :
             /\ OptionDescMatchAt(s, p).matched
             /\ \A p0 \in 1..(p - 1) : ~OptionDescMatchAt(s, p0).matched)
    ELSE NoMatch

-----------------------------------------------------------------------------
(***************************************************************************)
(* parse_schwab_transactions, lines 50-157: one iteration of the loop over *)
(* the rows of csv.DictReader.  A row is the dict of the eight columns; a  *)
(* line with fewer fields than the header leaves its last columns None.    *)
(***************************************************************************)
NoField == <<"None">>

\* row.get(column, "") is falsy: None or the empty string
Empty(field) == field = NoField \/ field = <<>>

NoRecord == [transaction_date |-> NoDate, action |-> "None", asset_type |-> "None",
             ticker |-> <<>>, quantity |-> Zero, price |-> Zero, fees |-> Zero,
             total_amount |-> Zero, option_type |-> "None",
             option_strike |-> NoDecimal, option_expiry |-> NoDate,
             raw_description |-> <<>>, raw_symbol |-> <<>>]

NoMessage == [kind |-> "", line |-> 0, a |-> <<>>, b |-> <<>>]

\* what an iteration does: kind is
\*   "raise"    an exception leaves the function (line 51, outside the try)
\*   "blank"    no action label, line 54
\*   "listed"   unmapped label of the skip list, line 61, nothing printed
\*   "unmapped" unmapped label, lines 60-61, one line printed
\*   "nodate"   empty Date, line 66, nothing printed
\*   "option"   option details not parsed, lines 128-129, one line printed
\*   "error"    an exception caught at line 155, one line printed
\*   "emit"     a record appended, line 139
Outcome(kind, rec, msg) == [kind |-> kind, rec |-> rec, msg |-> msg]

\* lines 77-80: parse_schwab_decimal(x) if x else Decimal("0")
Numeric(field) == IF Empty(field) THEN Ok(Zero) ELSE parse_schwab_decimal(field)

\* the option terms read from a match: the conversions of the strike and
\* of the expiry raise only when the match was made
OptionTerms(parsed, ticker_str, option_type, strike, expiry) ==
  [parsed |-> parsed,
   raises |-> parsed /\ (strike.raises \/ expiry.raises),
   ticker |-> ticker_str,
   option_type |-> option_type,
   strike |-> strike.val,
   expiry |-> expiry.val]

\* lines 93-105: the terms of the match ms of the Symbol field
SymbolTerms(symbol_str, ms) ==
  OptionTerms(symbol_str # <<>> /\ ms.matched, ms.g1,
              IF ms.g4 = <<"C">> THEN "CALL" ELSE "PUT",
              DecimalOf(ms.g3), ExpiryOf(ms.g2))

\* lines 92-106: the identity read from the Symbol field
FromSymbol(symbol_str) == SymbolTerms(symbol_str, OptionSymbolMatch(symbol_str))

\* lines 110-124: the terms of the match md of the Description field; the
\* ticker is the Symbol field when it is a plain symbol, and the first word
\* of the name otherwise
DescriptionTerms(symbol_str, description_str, md) ==
  OptionTerms(description_str # <<>> /\ md.matched,
              IF /\ symbol_str # <<>>
                 /\ ~OptionSymbolMatch(symbol_str).matched
                 /\ ~\E k \in 1..Len(symbol_str) : symbol_str[k] = " "
                THEN symbol_str
                ELSE Split(md.g2, " ")[1],
              IF md.g1 = <<"C", "A", "L", "L">> THEN "CALL" ELSE "PUT",
              DecimalOf(md.g3), ExpiryOf(md.g4))

\* lines 108-125: the identity read from the Description field
FromDescription(symbol_str, description_str) ==
  DescriptionTerms(symbol_str, description_str, OptionDescSearch(Upper(description_str)))

\* lines 131-135: the ticker of a dividend or interest row
CashTicker(symbol_str, description_str) ==
  LET first == IF symbol_str # <<>> THEN symbol_str ELSE description_str
  IN  IF first = <<>> /\ Contains(Lower(description_str), <<"d", "i", "v", "i", "d", "e", "n", "d">>)
        THEN Strip(RemoveSub(description_str, <<"D", "i", "v", "i", "d", "e", "n", "d">>))
        ELSE first

\* variant: the amount is stored as its magnitude
EmittedAbsAmount(date, action_enum, asset, ticker_str, quantity, price, fees, amount, otype, ostrike, oexpiry, description_str, symbol_str) ==
  [transaction_date |-> date,
   action           |-> action_enum,
   asset_type       |-> asset,
   ticker           |-> Strip(ticker_str),
   quantity         |-> IF Truthy(quantity) THEN CopyAbs(quantity) ELSE Zero,
   price            |-> IF Truthy(price) THEN CopyAbs(price) ELSE Zero,
   fees             |-> CopyAbs(fees),
   total_amount     |-> CopyAbs(amount),
   option_type      |-> otype,
   option_strike    |-> ostrike,
   option_expiry    |-> oexpiry,
   raw_description  |-> description_str,
   raw_symbol       |-> symbol_str]

\* lines 137-153: the dict appended to parsed_transactions
Emitted(date, action_enum, asset, ticker_str, quantity, price, fees, amount, otype, ostrike, oexpiry, description_str, symbol_str) ==
  [transaction_date |-> date,
   action           |-> action_enum,
   asset_type       |-> asset,
   ticker           |-> Strip(ticker_str),
   quantity         |-> IF Truthy(quantity) THEN CopyAbs(quantity) ELSE Zero,
   price            |-> IF Truthy(price) THEN CopyAbs(price) ELSE Zero,
   fees             |-> CopyAbs(fees),
   total_amount     |-> amount,
   option_type      |-> otype,
   option_strike    |-> ostrike,
   option_expiry    |-> oexpiry,
   raw_description  |-> description_str,
   raw_symbol       |-> symbol_str]

\* variant: the expiry of the match is dropped
OptionIdentityNoExpiry(m) ==
  [kind |-> IF m.raises THEN "error" ELSE "emit", asset |-> "OPTION",
   ticker |-> m.ticker, option_type |-> m.option_type, strike |-> m.strike,
   expiry |-> NoDate]

\* lines 94-104 and 113-123: the option a match names; a strike or expiry
\* that does not convert raises
OptionIdentity(m) ==
  [kind |-> IF m.raises THEN "error" ELSE "emit", asset |-> "OPTION",
   ticker |-> m.ticker, option_type |-> m.option_type, strike |-> m.strike,
   expiry |-> m.expiry]

\* lines 84, 131-135: a row that names no option
PlainIdentity(asset, ticker_str) ==
  [kind |-> "emit", asset |-> asset, ticker |-> ticker_str, option_type |-> "None",
   strike |-> NoDecimal, expiry |-> NoDate]

\* variant: the Description field is tried first
OptionRowDescriptionFirst(symbol_str, sym, desc) ==
  IF desc.parsed THEN OptionIdentity(desc)
  ELSE IF sym.parsed THEN OptionIdentity(sym)
  ELSE [PlainIdentity("OPTION", symbol_str) EXCEPT !.kind = "option"]

\* lines 88-129: the identity of an option row, the Symbol field first and
\* the Description field second
OptionRow(symbol_str, sym, desc) ==
  IF sym.parsed THEN OptionIdentity(sym)
  ELSE IF desc.parsed THEN OptionIdentity(desc)
  ELSE [PlainIdentity("OPTION", symbol_str) EXCEPT !.kind = "option"]

\* lines 84-135: the asset type and the identity of the row
Identity(action_enum, symbol_str, description_str) ==
  IF action_enum \in OptionActions
    THEN OptionRow(symbol_str, FromSymbol(symbol_str),
                   FromDescription(symbol_str, description_str))
  ELSE IF action_enum \in {"DIVIDEND", "INTEREST"}
    THEN PlainIdentity("CASH", CashTicker(symbol_str, description_str))
  ELSE PlainIdentity("STOCK", symbol_str)

\* lines 126-157: the row after its identity is resolved
Resolved(id, line, date, action_enum, quantity, price, fees, amount, description_str, symbol_str) ==
  IF id.kind = "error"
    THEN Outcome("error", NoRecord, [NoMessage EXCEPT !.kind = "error", !.line = line])
  ELSE IF id.kind = "option"
    THEN Outcome("option", NoRecord,
                 [kind |-> "option", line |-> line, a |-> symbol_str,
                  b |-> description_str])
  ELSE Outcome("emit",
               Emitted(date, action_enum, id.asset, id.ticker, quantity, price, fees,
                       amount, id.option_type, id.strike, id.expiry, description_str,
                       symbol_str),
               NoMessage)

\* lines 64-157: the row after its date and its numbers are converted
Converted(row, line, action_enum, date, quantity, price, fees, amount) ==
  IF \/ date.raises
     \/ row.Symbol = NoField \/ row.Description = NoField
     \/ quantity.raises \/ price.raises \/ fees.raises \/ amount.raises
    THEN Outcome("error", NoRecord, [NoMessage EXCEPT !.kind = "error", !.line = line])
    ELSE Resolved(Identity(action_enum, Strip(row.Symbol), Strip(row.Description)),
                  line, date.val, action_enum, quantity.val, price.val, fees.val,
                  amount.val, Strip(row.Description), Strip(row.Symbol))

\* lines 63-157: the body of the try, for a row whose action is mapped
TryRow(row, idx, raw_action, action_enum) ==
  IF row.Date = NoField
    THEN Outcome("error", NoRecord, [NoMessage EXCEPT !.kind = "error", !.line = idx + 2])
  ELSE IF Strip(row.Date) = <<>> THEN Outcome("nodate", NoRecord, NoMessage)
  ELSE Converted(row, idx + 2, action_enum, Strptime(Strip(row.Date), TRUE),
                 Numeric(row.Quantity), Numeric(row.Price), Numeric(row.Fees),
                 Numeric(row.Amount))

\* line 51: row.get("Action", "").strip(); the default "" only replaces a
\* missing key, so the None of a short line raises AttributeError
ActionLabel(row) ==
  IF row.Action = NoField THEN Raise(<<>>) ELSE Ok(Strip(row.Action))

\* lines 50-157: one iteration
RowOutcome(row, idx) ==
  LET label == ActionLabel(row)
      raw_action == label.val
      action_enum == ACTION_MAP(raw_action)
  IN  IF label.raises THEN Outcome("raise", NoRecord, NoMessage)
      ELSE IF raw_action = <<>> THEN Outcome("blank", NoRecord, NoMessage)
      ELSE IF action_enum = "None"
        THEN IF ~Listed(raw_action)
               THEN Outcome("unmapped", NoRecord,
                            [kind |-> "unmapped", line |-> idx + 2,
                             a |-> raw_action, b |-> <<>>])
               ELSE Outcome("listed", NoRecord, NoMessage)
      ELSE TryRow(row, idx, raw_action, action_enum)

-----------------------------------------------------------------------------
(***************************************************************************)
(* The rows the model parses: each is one line of a Schwab export as       *)
(* csv.DictReader delivers it under the header                             *)
(* Date,Action,Symbol,Description,Quantity,Price,Fees & Comm,Amount.       *)
(***************************************************************************)
Rows ==
  { \* 05/19/2025,Buy,NVDA,NVIDIA CORP,100,$135.50,,"($13,550.00)"
    [Date |-> <<"0", "5", "/", "1", "9", "/", "2", "0", "2", "5">>,
     Action |-> <<"B", "u", "y">>,
     Symbol |-> <<"N", "V", "D", "A">>,
     Description |-> <<"N", "V", "I", "D", "I", "A", " ", "C", "O", "R", "P">>,
     Quantity |-> <<"1", "0", "0">>, Price |-> <<"$", "1", "3", "5", ".", "5", "0">>,
     Fees |-> <<>>, Amount |-> <<"(", "$", "1", "3", ",", "5", "5", "0", ".", "0", "0", ")">>],
    \* 05/20/2025,Sell,NVDA,NVIDIA CORP,-5,$140.00,($0.10),$699.90
    [Date |-> <<"0", "5", "/", "2", "0", "/", "2", "0", "2", "5">>,
     Action |-> <<"S", "e", "l", "l">>,
     Symbol |-> <<"N", "V", "D", "A">>,
     Description |-> <<"N", "V", "I", "D", "I", "A", " ", "C", "O", "R", "P">>,
     Quantity |-> <<"-", "5">>, Price |-> <<"$", "1", "4", "0", ".", "0", "0">>,
     Fees |-> <<"(", "$", "0", ".", "1", "0", ")">>, Amount |-> <<"$", "6", "9", "9", ".", "9", "0">>],
    \* 05/15/2025,Sell to Open,MSFT 12/18/2026 400.00 P,PUT MICROSOFT CORP $400 EXP 12/18/26,3,$27.18,$1.98,"$8,152.02"
    [Date |-> <<"0", "5", "/", "1", "5", "/", "2", "0", "2", "5">>,
     Action |-> <<"S", "e", "l", "l", " ", "t", "o", " ", "O", "p", "e", "n">>,
     Symbol |-> <<"M", "S", "F", "T", " ", "1", "2", "/", "1", "8", "/", "2", "0", "2", "6", " ", "4", "0", "0", ".", "0", "0", " ", "P">>,
     Description |-> <<"P", "U", "T", " ", "M", "I", "C", "R", "O", "S", "O", "F", "T", " ", "C", "O", "R", "P", " ", "$", "4", "0", "0", " ", "E", "X", "P", " ", "1", "2", "/", "1", "8", "/", "2", "6">>,
     Quantity |-> <<"3">>, Price |-> <<"$", "2", "7", ".", "1", "8">>,
     Fees |-> <<"$", "1", ".", "9", "8">>, Amount |-> <<"$", "8", ",", "1", "5", "2", ".", "0", "2">>],
    \* 05/14/2025,Buy to Close,NVDA,PUT NVIDIA CORP $70.00 EXP 01/15/27,1,$4.11,$0.66,($411.66)
    [Date |-> <<"0", "5", "/", "1", "4", "/", "2", "0", "2", "5">>,
     Action |-> <<"B", "u", "y", " ", "t", "o", " ", "C", "l", "o", "s", "e">>,
     Symbol |-> <<"N", "V", "D", "A">>,
     Description |-> <<"P", "U", "T", " ", "N", "V", "I", "D", "I", "A", " ", "C", "O", "R", "P", " ", "$", "7", "0", ".", "0", "0", " ", "E", "X", "P", " ", "0", "1", "/", "1", "5", "/", "2", "7">>,
     Quantity |-> <<"1">>, Price |-> <<"$", "4", ".", "1", "1">>,
     Fees |-> <<"$", "0", ".", "6", "6">>, Amount |-> <<"(", "$", "4", "1", "1", ".", "6", "6", ")">>],
    \* 05/14/2025,Buy to Close,NVDA,PUT NVIDIA CORP $70 EXP 01/15/27,1,$4.11,$0.66,($411.66)
    [Date |-> <<"0", "5", "/", "1", "4", "/", "2", "0", "2", "5">>,
     Action |-> <<"B", "u", "y", " ", "t", "o", " ", "C", "l", "o", "s", "e">>,
     Symbol |-> <<"N", "V", "D", "A">>,
     Description |-> <<"P", "U", "T", " ", "N", "V", "I", "D", "I", "A", " ", "C", "O", "R", "P", " ", "$", "7", "0", " ", "E", "X", "P", " ", "0", "1", "/", "1", "5", "/", "2", "7">>,
     Quantity |-> <<"1">>, Price |-> <<"$", "4", ".", "1", "1">>,
     Fees |-> <<"$", "0", ".", "6", "6">>, Amount |-> <<"(", "$", "4", "1", "1", ".", "6", "6", ")">>],
    \* 05/14/2025,Buy to Open,XYZ 1/2/123 5 C,,1,$1.00,,($100.00): the expiry is no date
    [Date |-> <<"0", "5", "/", "1", "4", "/", "2", "0", "2", "5">>,
     Action |-> <<"B", "u", "y", " ", "t", "o", " ", "O", "p", "e", "n">>,
     Symbol |-> <<"X", "Y", "Z", " ", "1", "/", "2", "/", "1", "2", "3", " ", "5", " ", "C">>,
     Description |-> <<>>,
     Quantity |-> <<"1">>, Price |-> <<"$", "1", ".", "0", "0">>,
     Fees |-> <<>>, Amount |-> <<"(", "$", "1", "0", "0", ".", "0", "0", ")">>],
    \* 05/14/2025,Buy to Open,XYZ 1/2/26 1.2.3 C,,1,$1.00,,($100.00): the strike is no number
    [Date |-> <<"0", "5", "/", "1", "4", "/", "2", "0", "2", "5">>,
     Action |-> <<"B", "u", "y", " ", "t", "o", " ", "O", "p", "e", "n">>,
     Symbol |-> <<"X", "Y", "Z", " ", "1", "/", "2", "/", "2", "6", " ", "1", ".", "2", ".", "3", " ", "C">>,
     Description |-> <<>>,
     Quantity |-> <<"1">>, Price |-> <<"$", "1", ".", "0", "0">>,
     Fees |-> <<>>, Amount |-> <<"(", "$", "1", "0", "0", ".", "0", "0", ")">>],
    \* 05/15/2025,Qualified Dividend,AAPL,APPLE INC,,,,$1.13
    [Date |-> <<"0", "5", "/", "1", "5", "/", "2", "0", "2", "5">>,
     Action |-> <<"Q", "u", "a", "l", "i", "f", "i", "e", "d", " ", "D", "i", "v", "i", "d", "e", "n", "d">>,
     Symbol |-> <<"A", "A", "P", "L">>,
     Description |-> <<"A", "P", "P", "L", "E", " ", "I", "N", "C">>,
     Quantity |-> <<>>, Price |-> <<>>,
     Fees |-> <<>>, Amount |-> <<"$", "1", ".", "1", "3">>],
    \* 01/01/2024,MoneyLink Transfer,,Outgoing Transfer,,,,($1000.00)
    [Date |-> <<"0", "1", "/", "0", "1", "/", "2", "0", "2", "4">>,
     Action |-> <<"M", "o", "n", "e", "y", "L", "i", "n", "k", " ", "T", "r", "a", "n", "s", "f", "e", "r">>,
     Symbol |-> <<>>,
     Description |-> <<"O", "u", "t", "g", "o", "i", "n", "g", " ", "T", "r", "a", "n", "s", "f", "e", "r">>,
     Quantity |-> <<>>, Price |-> <<>>,
     Fees |-> <<>>, Amount |-> <<"(", "$", "1", "0", "0", "0", ".", "0", "0", ")">>],
    \* 01/02/2024,Stock Split,AAPL,APPLE INC,4,,,
    [Date |-> <<"0", "1", "/", "0", "2", "/", "2", "0", "2", "4">>,
     Action |-> <<"S", "t", "o", "c", "k", " ", "S", "p", "l", "i", "t">>,
     Symbol |-> <<"A", "A", "P", "L">>,
     Description |-> <<"A", "P", "P", "L", "E", " ", "I", "N", "C">>,
     Quantity |-> <<"4">>, Price |-> <<>>,
     Fees |-> <<>>, Amount |-> <<>>],
    \* 01/03/2024,buy,AAPL,APPLE INC,1,$10.00,,($10.00)
    [Date |-> <<"0", "1", "/", "0", "3", "/", "2", "0", "2", "4">>,
     Action |-> <<"b", "u", "y">>,
     Symbol |-> <<"A", "A", "P", "L">>,
     Description |-> <<"A", "P", "P", "L", "E", " ", "I", "N", "C">>,
     Quantity |-> <<"1">>, Price |-> <<"$", "1", "0", ".", "0", "0">>,
     Fees |-> <<>>, Amount |-> <<"(", "$", "1", "0", ".", "0", "0", ")">>],
    \* 2025-05-19,Buy,AAPL,APPLE INC,1,$10.00,,($10.00): the date is malformed
    [Date |-> <<"2", "0", "2", "5", "-", "0", "5", "-", "1", "9">>,
     Action |-> <<"B", "u", "y">>,
     Symbol |-> <<"A", "A", "P", "L">>,
     Description |-> <<"A", "P", "P", "L", "E", " ", "I", "N", "C">>,
     Quantity |-> <<"1">>, Price |-> <<"$", "1", "0", ".", "0", "0">>,
     Fees |-> <<>>, Amount |-> <<"(", "$", "1", "0", ".", "0", "0", ")">>],
    \* ,Buy,,,,,,
    [Date |-> <<>>,
     Action |-> <<"B", "u", "y">>,
     Symbol |-> <<>>,
     Description |-> <<>>,
     Quantity |-> <<>>, Price |-> <<>>,
     Fees |-> <<>>, Amount |-> <<>>],
    \* ,,,,,,,
    [Date |-> <<>>,
     Action |-> <<>>,
     Symbol |-> <<>>,
     Description |-> <<>>,
     Quantity |-> <<>>, Price |-> <<>>,
     Fees |-> <<>>, Amount |-> <<>>],
    \* 05/19/2025,Buy,AAPL,APPLE INC,1,$10.00,,(abc): the amount is no number
    [Date |-> <<"0", "5", "/", "1", "9", "/", "2", "0", "2", "5">>,
     Action |-> <<"B", "u", "y">>,
     Symbol |-> <<"A", "A", "P", "L">>,
     Description |-> <<"A", "P", "P", "L", "E", " ", "I", "N", "C">>,
     Quantity |-> <<"1">>, Price |-> <<"$", "1", "0", ".", "0", "0">>,
     Fees |-> <<>>, Amount |-> <<"(", "a", "b", "c", ")">>],
    \* 05/19/2025,Buy,AAPL,APPLE INC,n/a,$10.00,,($10.00): the quantity is no number
    [Date |-> <<"0", "5", "/", "1", "9", "/", "2", "0", "2", "5">>,
     Action |-> <<"B", "u", "y">>,
     Symbol |-> <<"A", "A", "P", "L">>,
     Description |-> <<"A", "P", "P", "L", "E", " ", "I", "N", "C">>,
     Quantity |-> <<"n", "/", "a">>, Price |-> <<"$", "1", "0", ".", "0", "0">>,
     Fees |-> <<>>, Amount |-> <<"(", "$", "1", "0", ".", "0", "0", ")">>],
    \* Transactions Total: a line with one field
    [Date |-> <<"T", "r", "a", "n", "s", "a", "c", "t", "i", "o", "n", "s", " ", "T", "o", "t", "a", "l">>,
     Action |-> NoField,
     Symbol |-> NoField,
     Description |-> NoField,
     Quantity |-> NoField, Price |-> NoField,
     Fees |-> NoField, Amount |-> NoField],
    \* 05/19/2025,Buy: a line with two fields
    [Date |-> <<"0", "5", "/", "1", "9", "/", "2", "0", "2", "5">>,
     Action |-> <<"B", "u", "y">>,
     Symbol |-> NoField,
     Description |-> NoField,
     Quantity |-> NoField, Price |-> NoField,
     Fees |-> NoField, Amount |-> NoField],
    \* 05/19/2025,Buy,AAPL,APPLE INC,1: a line with five fields
    [Date |-> <<"0", "5", "/", "1", "9", "/", "2", "0", "2", "5">>,
     Action |-> <<"B", "u", "y">>,
     Symbol |-> <<"A", "A", "P", "L">>,
     Description |-> <<"A", "P", "P", "L", "E", " ", "I", "N", "C">>,
     Quantity |-> <<"1">>, Price |-> NoField,
     Fees |-> NoField, Amount |-> NoField],
    \* 05/19/2025,Buy,AAPL,APPLE INC,NaN,$10.00,,($10.00): the quantity spells NaN
    [Date |-> <<"0", "5", "/", "1", "9", "/", "2", "0", "2", "5">>,
     Action |-> <<"B", "u", "y">>,
     Symbol |-> <<"A", "A", "P", "L">>,
     Description |-> <<"A", "P", "P", "L", "E", " ", "I", "N", "C">>,
     Quantity |-> <<"N", "a", "N">>, Price |-> <<"$", "1", "0", ".", "0", "0">>,
     Fees |-> <<>>, Amount |-> <<"(", "$", "1", "0", ".", "0", "0", ")">>],
    \* 05/19/2025,Buy,,,1,$10.00,,($10.00): no symbol
    [Date |-> <<"0", "5", "/", "1", "9", "/", "2", "0", "2", "5">>,
     Action |-> <<"B", "u", "y">>,
     Symbol |-> <<>>,
     Description |-> <<>>,
     Quantity |-> <<"1">>, Price |-> <<"$", "1", "0", ".", "0", "0">>,
     Fees |-> <<>>, Amount |-> <<"(", "$", "1", "0", ".", "0", "0", ")">>],
    \* 05/14/2025,Buy to Open,XYZ 1/2/2026 0 C,,1,$1.00,,($100.00): the strike is 0
    [Date |-> <<"0", "5", "/", "1", "4", "/", "2", "0", "2", "5">>,
     Action |-> <<"B", "u", "y", " ", "t", "o", " ", "O", "p", "e", "n">>,
     Symbol |-> <<"X", "Y", "Z", " ", "1", "/", "2", "/", "2", "0", "2", "6", " ", "0", " ", "C">>,
     Description |-> <<>>,
     Quantity |-> <<"1">>, Price |-> <<"$", "1", ".", "0", "0">>,
     Fees |-> <<>>, Amount |-> <<"(", "$", "1", "0", "0", ".", "0", "0", ")">>],
    \* 05/14/2025,Buy to Open,XYZ 1/2/2026 5 C,PUT ABC CORP $7.00 EXP 3/4/27,1,$1.00,,($100.00): both fields name an option
    [Date |-> <<"0", "5", "/", "1", "4", "/", "2", "0", "2", "5">>,
     Action |-> <<"B", "u", "y", " ", "t", "o", " ", "O", "p", "e", "n">>,
     Symbol |-> <<"X", "Y", "Z", " ", "1", "/", "2", "/", "2", "0", "2", "6", " ", "5", " ", "C">>,
     Description |-> <<"P", "U", "T", " ", "A", "B", "C", " ", "C", "O", "R", "P", " ", "$", "7", ".", "0", "0", " ", "E", "X", "P", " ", "3", "/", "4", "/", "2", "7">>,
     Quantity |-> <<"1">>, Price |-> <<"$", "1", ".", "0", "0">>,
     Fees |-> <<>>, Amount |-> <<"(", "$", "1", "0", "0", ".", "0", "0", ")">>],
    \* ,Sell to Open,XYZ,SOME TEXT,1,$1.00,,$100.00: no date and no option details
    [Date |-> <<>>,
     Action |-> <<"S", "e", "l", "l", " ", "t", "o", " ", "O", "p", "e", "n">>,
     Symbol |-> <<"X", "Y", "Z">>,
     Description |-> <<"S", "O", "M", "E", " ", "T", "E", "X", "T">>,
     Quantity |-> <<"1">>, Price |-> <<"$", "1", ".", "0", "0">>,
     Fees |-> <<>>, Amount |-> <<"$", "1", "0", "0", ".", "0", "0">>],
    \* 01/04/2024,JOURNAL,,,,,,$5.00
    [Date |-> <<"0", "1", "/", "0", "4", "/", "2", "0", "2", "4">>,
     Action |-> <<"J", "O", "U", "R", "N", "A", "L">>,
     Symbol |-> <<>>,
     Description |-> <<>>,
     Quantity |-> <<>>, Price |-> <<>>,
     Fees |-> <<>>, Amount |-> <<"$", "5", ".", "0", "0">>],
    \* 05/14/2025,Buy to Open,,call spxw index $4500.00 exp 03/28/24,2,$50.00,$1.30,"($10,001.30)"
    [Date |-> <<"0", "5", "/", "1", "4", "/", "2", "0", "2", "5">>,
     Action |-> <<"B", "u", "y", " ", "t", "o", " ", "O", "p", "e", "n">>,
     Symbol |-> <<>>,
     Description |-> <<"c", "a", "l", "l", " ", "s", "p", "x", "w", " ", "i", "n", "d", "e", "x", " ", "$", "4", "5", "0", "0", ".", "0", "0", " ", "e", "x", "p", " ", "0", "3", "/", "2", "8", "/", "2", "4">>,
     Quantity |-> <<"2">>, Price |-> <<"$", "5", "0", ".", "0", "0">>,
     Fees |-> <<"$", "1", ".", "3", "0">>, Amount |-> <<"(", "$", "1", "0", ",", "0", "0", "1", ".", "3", "0", ")">>],
    \* 05/15/2025,Cash Dividend,,APPLE INC Dividend,,,,$1.13: no symbol, the description holds the word Dividend
    [Date |-> <<"0", "5", "/", "1", "5", "/", "2", "0", "2", "5">>,
     Action |-> <<"C", "a", "s", "h", " ", "D", "i", "v", "i", "d", "e", "n", "d">>,
     Symbol |-> <<>>,
     Description |-> <<"A", "P", "P", "L", "E", " ", "I", "N", "C", " ", "D", "i", "v", "i", "d", "e", "n", "d">>,
     Quantity |-> <<>>, Price |-> <<>>,
     Fees |-> <<>>, Amount |-> <<"$", "1", ".", "1", "3">>],
    \* 05/15/2025,Interest Income,,BANK INT,,,,$0.25
    [Date |-> <<"0", "5", "/", "1", "5", "/", "2", "0", "2", "5">>,
     Action |-> <<"I", "n", "t", "e", "r", "e", "s", "t", " ", "I", "n", "c", "o", "m", "e">>,
     Symbol |-> <<>>,
     Description |-> <<"B", "A", "N", "K", " ", "I", "N", "T">>,
     Quantity |-> <<>>, Price |-> <<>>,
     Fees |-> <<>>, Amount |-> <<"$", "0", ".", "2", "5">>],
    \* 05/19/2025,Sell,MSFT 12/18/2026 400.00 P,,1,$10.00,,$10.00: a Sell row whose symbol has the form of a contract symbol
    [Date |-> <<"0", "5", "/", "1", "9", "/", "2", "0", "2", "5">>,
     Action |-> <<"S", "e", "l", "l">>,
     Symbol |-> <<"M", "S", "F", "T", " ", "1", "2", "/", "1", "8", "/", "2", "0", "2", "6", " ", "4", "0", "0", ".", "0", "0", " ", "P">>,
     Description |-> <<>>,
     Quantity |-> <<"1">>, Price |-> <<"$", "1", "0", ".", "0", "0">>,
     Fees |-> <<>>, Amount |-> <<"$", "1", "0", ".", "0", "0">>] }

\* the files: every sequence of at most MaxRows rows
RowLists == SeqsUpTo(Rows, MaxRows)

InitParse ==
  /\ rows \in RowLists
  /\ row_idx = 0
  /\ parsed_transactions = <<>>
  /\ printed = <<>>
  /\ ppc = "loop"
  /\ rowFate = <<>>

\* lines 50-157: the loop consumes the next row
ParseRow ==
  /\ ppc = "loop"
  /\ row_idx < Len(rows)
  /\ \E o \in {RowOutcome(rows[row_idx + 1], row_idx)} :
         /\ rowFate' = Append(rowFate, o.kind)
         /\ ppc' = IF o.kind = "raise" THEN "raised" ELSE "loop"
         /\ parsed_transactions' =
              IF o.kind = "emit" THEN Append(parsed_transactions, o.rec)
              ELSE parsed_transactions
         /\ printed' =
              IF o.kind \in {"unmapped", "option", "error"} THEN Append(printed, o.msg)
              ELSE printed
  /\ row_idx' = row_idx + 1
  /\ UNCHANGED rows
  /\ UNCHANGED impVars

\* line 159: the rows are exhausted, return parsed_transactions
ParseReturn ==
  /\ ppc = "loop"
  /\ row_idx = Len(rows)
  /\ ppc' = "returned"
  /\ UNCHANGED <<rows, row_idx, parsed_transactions, printed, rowFate>>
  /\ UNCHANGED impVars

NextParse ==
  \/ ParseRow
  \/ ParseReturn

\* the parser starts on its rows; the importer takes no part
InitParser == InitImport /\ InitParse

SpecParse == InitParser /\ [][NextParse]_vars

-----------------------------------------------------------------------------
(***************************************************************************)
(* Properties of parse_schwab_transactions.                                *)
(***************************************************************************)
\* C10 as claimed: no row makes the parse abort; whatever the rows hold, the
\* call never ends by raising, and when it returns every row has been
\* consumed, each bad one excluded and each good one emitted in input order.
C10_Original ==
  /\ ppc # "raised"
  /\ ppc = "returned" =>
       /\ row_idx = Len(rows)
       /\ Len(parsed_transactions) =
            Cardinality({k \in 1..Len(rowFate) : rowFate[k] = "emit"})


-----------------------------------------------------------------------------
(***************************************************************************)
(* Properties of the parser.  A step that consumes a row is a step of the  *)
(* loop of lines 50-157; the row it consumes is rows[row_idx + 1], the     *)
(* line printed for it carries the number row_idx + 2.                     *)
(***************************************************************************)
Consumes == ppc = "loop" /\ row_idx < Len(rows) /\ row_idx' = row_idx + 1
Current == rows[row_idx + 1]

\* the Action field without the blanks around it; a short line has none
LabelOf(row) == IF row.Action = NoField THEN <<>> ELSE Strip(row.Action)

\* the keys of the canonical action map, as written
CanonicalLabels ==
  { <<"B", "u", "y">>, <<"S", "e", "l", "l">>, <<"S", "e", "l", "l", " ", "t", "o", " ", "O", "p", "e", "n">>, <<"B", "u", "y", " ", "t", "o", " ", "O", "p", "e", "n">>, <<"S", "e", "l", "l", " ", "t", "o", " ", "C", "l", "o", "s", "e">>,
    <<"B", "u", "y", " ", "t", "o", " ", "C", "l", "o", "s", "e">>, <<"Q", "u", "a", "l", "i", "f", "i", "e", "d", " ", "D", "i", "v", "i", "d", "e", "n", "d">>, <<"C", "a", "s", "h", " ", "D", "i", "v", "i", "d", "e", "n", "d">>, <<"I", "n", "t", "e", "r", "e", "s", "t", " ", "I", "n", "c", "o", "m", "e">> }

\* the label is one of the skip labels, ignoring letter case
SkipLabelled(row) == \E l \in SkipLabels : Lower(LabelOf(row)) = Lower(l)

\* C11: a row whose Action label equals, ignoring letter case, one of the skip
\* labels adds no record to the output and prints no warning.
C11_SkipLabelSilent ==
  [][(Consumes /\ SkipLabelled(Current))
       => (parsed_transactions' = parsed_transactions /\ printed' = printed)]_vars

\* a skip label written in another letter case than the list's has been
\* consumed, and nothing was emitted or printed
C11_Witness ==
  /\ row_idx >= 1
  /\ SkipLabelled(rows[row_idx])
  /\ LabelOf(rows[row_idx]) \notin SkipLabels
  /\ parsed_transactions = <<>>
  /\ printed = <<>>
  /\ ppc = "loop"

\* the label is not empty, is no key of the canonical map and is no skip label
Unknown(row) ==
  /\ LabelOf(row) # <<>>
  /\ LabelOf(row) \notin CanonicalLabels
  /\ ~SkipLabelled(row)

\* C12: a row whose non-empty Action label is neither an exact key of the
\* canonical action map nor a skip label adds no record, prints exactly one
\* warning that carries the row's line number and the label, and the parse
\* goes on without raising.
C12_UnknownLabelWarned ==
  [][(Consumes /\ Unknown(Current))
       => /\ parsed_transactions' = parsed_transactions
          /\ Len(printed') = Len(printed) + 1
          /\ printed'[Len(printed')].kind = "unmapped"
          /\ printed'[Len(printed')].line = row_idx + 2
          /\ printed'[Len(printed')].a = LabelOf(Current)
          /\ SubSeq(printed', 1, Len(printed)) = printed
          /\ ppc' = "loop"]_vars

\* a case variant of a mapped label ("buy") has been consumed and warned about
C12_Witness ==
  /\ row_idx >= 1
  /\ Unknown(rows[row_idx])
  /\ \E l \in CanonicalLabels : Lower(l) = Lower(LabelOf(rows[row_idx]))
  /\ Len(printed) = 1
  /\ printed[1].kind = "unmapped"
  /\ printed[1].a = LabelOf(rows[row_idx])
  /\ parsed_transactions = <<>>

\* the step appends a record; the record it appends
Emits == Consumes /\ Len(parsed_transactions') = Len(parsed_transactions) + 1
Appended == parsed_transactions'[Len(parsed_transactions')]

\* x >= 0: a finite number or an infinity without the minus sign; NaN is
\* neither below nor above zero
NonNegative(x) == x.kind \in {"finite", "Infinity"} /\ ~x.neg

\* C13 as claimed: in every emitted record quantity, price and fees are
\* non-negative.
C13_Original ==
  \A k \in 1..Len(parsed_transactions) :
    /\ NonNegative(parsed_transactions[k].quantity)
    /\ NonNegative(parsed_transactions[k].price)
    /\ NonNegative(parsed_transactions[k].fees)

\* the Amount cell is wrapped in parentheses once "$" and "," are removed
Parenthesised(field) ==
  /\ ~Empty(field)
  /\ StartsWith(RemoveChar(RemoveChar(field, "$"), ","), <<"(">>)
  /\ EndsWith(RemoveChar(RemoveChar(field, "$"), ","), <<")">>)

TermsPresent(rec) ==
  Cardinality({f \in {"type", "strike", "expiry"} :
                 \/ f = "type" /\ rec.option_type # "None"
                 \/ f = "strike" /\ rec.option_strike.t # "None"
                 \/ f = "expiry" /\ rec.option_expiry.t # "None"})

\* C15: an emitted record has asset type OPTION exactly when option_type,
\* option_strike and option_expiry are all present, and a record of another
\* asset type carries none of them.
C15_OptionIffTerms ==
  \A k \in 1..Len(parsed_transactions) :
    IF parsed_transactions[k].asset_type = "OPTION"
      THEN TermsPresent(parsed_transactions[k]) = 3
      ELSE TermsPresent(parsed_transactions[k]) = 0

\* an option with its three terms and a record of another asset type
\* without any have both been emitted
C15_Witness ==
  /\ Len(parsed_transactions) = 2
  /\ parsed_transactions[1].asset_type = "OPTION"
  /\ TermsPresent(parsed_transactions[1]) = 3
  /\ parsed_transactions[2].asset_type # "OPTION"
  /\ TermsPresent(parsed_transactions[2]) = 0

\* C16 as claimed: in every emitted OPTION record option_type is CALL or PUT
\* and option_strike is a strictly positive decimal.
C16_Original ==
  \A k \in 1..Len(parsed_transactions) :
    parsed_transactions[k].asset_type = "OPTION"
      => /\ parsed_transactions[k].option_type \in {"CALL", "PUT"}
         /\ parsed_transactions[k].option_strike.t = "Decimal"
         /\ NonNegative(parsed_transactions[k].option_strike)
         /\ parsed_transactions[k].option_strike.coef > 0

\* C17 as claimed: every emitted record has a non-empty ticker, and the
\* ticker of an OPTION record is not a contract symbol.
C17_Original ==
  \A k \in 1..Len(parsed_transactions) :
    /\ parsed_transactions[k].ticker # <<>>
    /\ parsed_transactions[k].asset_type = "OPTION"
         => ~OptionSymbolMatch(parsed_transactions[k].ticker).matched

\* the labels of the open and close actions
OpenCloseLabels == { <<"S", "e", "l", "l", " ", "t", "o", " ", "O", "p", "e", "n">>, <<"B", "u", "y", " ", "t", "o", " ", "O", "p", "e", "n">>, <<"S", "e", "l", "l", " ", "t", "o", " ", "C", "l", "o", "s", "e">>, <<"B", "u", "y", " ", "t", "o", " ", "C", "l", "o", "s", "e">> }

\* an open or close row of full length
OptionLabelled(row) ==
  /\ LabelOf(row) \in OpenCloseLabels
  /\ row.Symbol # NoField
  /\ row.Description # NoField

\* an open or close row whose Symbol is a contract symbol
SymbolRow(row) == OptionLabelled(row) /\ OptionSymbolMatch(Strip(row.Symbol)).matched

\* the descriptions a row is tried with: none, one that names another
\* option, one that names nothing
Descriptions == { <<>>, <<"P", "U", "T", " ", "A", "B", "C", " ", "C", "O", "R", "P", " ", "$", "7", ".", "0", "0", " ", "E", "X", "P", " ", "3", "/", "4", "/", "2", "7">>, <<"S", "O", "M", "E", " ", "T", "E", "X", "T">> }

\* what a row comes to, apart from the raw texts it carries along
Terms(o) ==
  <<o.kind, o.rec.asset_type, o.rec.ticker, o.rec.option_type, o.rec.option_strike,
    o.rec.option_expiry>>

\* C18: for an open or close row whose Symbol matches the contract grammar,
\* ticker, right, strike and expiry of the emitted record are the ones of the
\* Symbol, and the row comes to the same whatever its Description is.
C18_SymbolAuthoritative ==
  [][(Consumes /\ SymbolRow(Current))
       => /\ Emits <=> RowOutcome(Current, row_idx).kind = "emit"
          /\ \A d \in Descriptions :
               Terms(RowOutcome([Current EXCEPT !.Description = d], row_idx))
                 = Terms(RowOutcome(Current, row_idx))
          /\ Emits =>
               /\ Appended.asset_type = "OPTION"
               /\ Appended.ticker = OptionSymbolMatch(Strip(Current.Symbol)).g1
               /\ Appended.option_type =
                    (IF OptionSymbolMatch(Strip(Current.Symbol)).g4 = <<"C">>
                       THEN "CALL" ELSE "PUT")
               /\ Appended.option_strike = DecimalOf(OptionSymbolMatch(Strip(Current.Symbol)).g3).val
               /\ Appended.option_expiry = ExpiryOf(OptionSymbolMatch(Strip(Current.Symbol)).g2).val]_vars

\* a row whose Symbol is a contract symbol and whose Description names
\* another option has been emitted with the terms of the Symbol
C18_Witness ==
  /\ row_idx >= 1
  /\ rowFate[row_idx] = "emit"
  /\ SymbolRow(rows[row_idx])
  /\ OptionDescSearch(Upper(Strip(rows[row_idx].Description))).matched
  /\ parsed_transactions[Len(parsed_transactions)].ticker = <<"X", "Y", "Z">>
  /\ parsed_transactions[Len(parsed_transactions)].option_type = "CALL"
  /\ parsed_transactions[Len(parsed_transactions)].option_strike = Decimal(FALSE, 5, 0)
  /\ parsed_transactions[Len(parsed_transactions)].option_expiry = Date(2026, 1, 2)

\* the Description with ".00" put after a strike written without a
\* fractional part
WithFraction(desc) ==
  IF \E p \in 1..Len(desc) : desc[p] = "$" /\ Run(desc, p + 1, DigitSet) >= 1
                               /\ ~CharAt(desc, p + 1 + Run(desc, p + 1, DigitSet), ".")
    THEN Split(desc, "$")[1] \o <<"$">>
           \o SubSeq(Split(desc, "$")[2], 1, Run(Split(desc, "$")[2], 1, DigitSet))
           \o <<".", "0", "0">>
           \o From(Split(desc, "$")[2], Run(Split(desc, "$")[2], 1, DigitSet) + 1)
    ELSE desc

\* the free-text form of the claim: (CALL|PUT) <NAME> $<STRIKE> EXP <date>,
\* the strike with or without a fractional part
ClaimedForm(desc) ==
  /\ Len(Split(desc, "$")) = 2
  /\ OptionDescSearch(Upper(WithFraction(desc))).matched
  /\ ~ExpiryOf(OptionDescSearch(Upper(WithFraction(desc))).g4).raises

\* the Symbol is a ticker: no contract symbol, no blank inside
BareTicker(symbol_str) ==
  /\ symbol_str # <<>>
  /\ ~OptionSymbolMatch(symbol_str).matched
  /\ ~\E k \in 1..Len(symbol_str) : symbol_str[k] = " "

\* date and numbers of the row convert
Converts(row) ==
  /\ row.Date # NoField
  /\ ~Strptime(Strip(row.Date), TRUE).raises
  /\ ~Numeric(row.Quantity).raises /\ ~Numeric(row.Price).raises
  /\ ~Numeric(row.Fees).raises /\ ~Numeric(row.Amount).raises

\* C19 as claimed: an open or close row with a bare or empty Symbol and a
\* Description of the free-text form, the strike with or without a
\* fractional part, is emitted as one OPTION record whose ticker is the
\* Symbol, or the first word of the name when the Symbol is empty, and
\* whose right and expiry are the ones of the Description.
C19_Original ==
  [][(/\ Consumes
      /\ OptionLabelled(Current)
      /\ Converts(Current)
      /\ Strip(Current.Symbol) = <<>> \/ BareTicker(Strip(Current.Symbol))
      /\ ClaimedForm(Strip(Current.Description)))
       => /\ Emits
          /\ Appended.asset_type = "OPTION"
          /\ Appended.ticker =
               (IF Strip(Current.Symbol) # <<>> THEN Strip(Current.Symbol)
                ELSE Split(OptionDescSearch(Upper(WithFraction(Strip(Current.Description)))).g2, " ")[1])
          /\ Appended.option_type =
               (IF OptionDescSearch(Upper(WithFraction(Strip(Current.Description)))).g1
                     = <<"C", "A", "L", "L">>
                  THEN "CALL" ELSE "PUT")
          /\ Appended.option_expiry =
               ExpiryOf(OptionDescSearch(Upper(WithFraction(Strip(Current.Description)))).g4).val]_vars

\* an open or close row of which neither field names an option
Unresolvable(row) ==
  /\ OptionLabelled(row)
  /\ ~OptionSymbolMatch(Strip(row.Symbol)).matched
  /\ ~OptionDescSearch(Upper(Strip(row.Description))).matched

\* C20 as claimed: an open or close row of which neither the Symbol nor the
\* Description names an option adds no record and prints exactly one
\* warning; the warning about the option details carries the Symbol and the
\* Description.
C20_Original ==
  [][(Consumes /\ Unresolvable(Current))
       => /\ parsed_transactions' = parsed_transactions
          /\ Len(printed') = Len(printed) + 1
          /\ printed'[Len(printed')].line = row_idx + 2
          /\ printed'[Len(printed')].kind = "option"
               => /\ printed'[Len(printed')].a = Strip(Current.Symbol)
                  /\ printed'[Len(printed')].b = Strip(Current.Description)]_vars

\* a row whose label maps to DIVIDEND or INTEREST
CashLabelled(row) == ACTION_MAP(LabelOf(row)) \in {"DIVIDEND", "INTEREST"}

\* the ticker the claim gives a dividend or interest row
ClaimedCashTicker(symbol_str, description_str) ==
  IF symbol_str # <<>> THEN symbol_str
  ELSE IF Contains(description_str, <<"D", "i", "v", "i", "d", "e", "n", "d">>)
    THEN Strip(RemoveSub(description_str, <<"D", "i", "v", "i", "d", "e", "n", "d">>))
  ELSE description_str

\* C21 as claimed: the record emitted for a dividend or interest row has
\* asset type CASH and its ticker is the Symbol when that is not empty,
\* otherwise the Description, with the word "Dividend" taken out of it.
C21_Original ==
  [][(Emits /\ CashLabelled(Current))
       => /\ Appended.asset_type = "CASH"
          /\ Appended.ticker =
               ClaimedCashTicker(Strip(Current.Symbol), Strip(Current.Description))]_vars

\* a row whose label maps to BUY or SELL
StockLabelled(row) == ACTION_MAP(LabelOf(row)) \in {"BUY", "SELL"}

\* the Date field of the row is a date of the form %m/%d/%Y
DateParses(row) ==
  /\ row.Date # NoField
  /\ Strip(row.Date) # <<>>
  /\ ~Strptime(Strip(row.Date), TRUE).raises

\* C22 as claimed: every Buy or Sell row with a parseable date is emitted as
\* one STOCK record whose ticker is the Symbol field, whatever its form, and
\* which carries no option term.
C22_Original ==
  [][(Consumes /\ StockLabelled(Current) /\ DateParses(Current))
       => /\ Emits
          /\ Appended.asset_type = "STOCK"
          /\ Appended.ticker = Current.Symbol
          /\ TermsPresent(Appended) = 0]_vars

\* the numeric cells of a row that are handed to parse_schwab_decimal
NumericCells(row) ==
  {c \in {row.Quantity, row.Price, row.Fees, row.Amount} : ~Empty(c)}

\* the text of a cell without currency signs, group separators and the
\* enclosing parentheses
Bare(cell) ==
  LET v == RemoveChar(RemoveChar(cell, "$"), ",")
  IN  IF StartsWith(v, <<"(">>) /\ EndsWith(v, <<")">>)
        THEN SubSeq(v, 2, Len(v) - 1) ELSE v

\* a cell whose bare text is no decimal
Malformed(cell) == ~Empty(cell) /\ DecimalOf(Bare(cell)).raises

\* C23 as claimed: parse_schwab_decimal never raises on a cell of a consumed
\* row and gives 0 for a cell that is no decimal, and a Buy or Sell row
\* whose Amount cell is no decimal is still emitted, with total_amount 0.
C23_Original ==
  [][Consumes
       => /\ \A c \in NumericCells(Current) :
               /\ ~parse_schwab_decimal(c).raises
               /\ Malformed(c) => parse_schwab_decimal(c).val = Zero
          /\ ( /\ StockLabelled(Current) /\ DateParses(Current)
               /\ Current.Symbol # NoField /\ Current.Description # NoField
               /\ Malformed(Current.Amount)
               /\ \A c \in NumericCells(Current) \ {Current.Amount} : ~Malformed(c) )
             => (Emits /\ Appended.total_amount = Zero)]_vars

\* a row with a mapped label and an empty Date field
Undated(row) ==
  /\ ACTION_MAP(LabelOf(row)) # "None"
  /\ row.Date # NoField
  /\ Strip(row.Date) = <<>>

\* C24 as claimed: a row with a mapped label and an empty Date adds no
\* record, is reported by one printed line, and the loop goes on.
C24_Original ==
  [][(Consumes /\ Undated(Current))
       => /\ parsed_transactions' = parsed_transactions
          /\ Len(printed') = Len(printed) + 1
          /\ ppc' = "loop"]_vars

-----------------------------------------------------------------------------
(***************************************************************************)
(* Further properties of import_transactions.                              *)
(***************************************************************************)
\* a complete record of asset type CASH whose quantity reads as 0
CashZero(tx) ==
  /\ tx.isdict
  /\ ~RaisesKeyError(tx)
  /\ tx.asset_type = "CASH"
  /\ DecimalOrZero(tx.quantity) = Dec(0)

\* the rows the committed call added to the table
Added == SubSeq(persisted, Len(before) + 1, Len(persisted))

\* C25: a CASH record with quantity 0 passes the zero-quantity check,
\* whatever its action: every such record the loop has examined was staged,
\* and when the call has committed, its transaction is among the rows the
\* call added to the table and among the returned ones.
C25_CashZeroAccepted ==
  /\ \A j \in Examined :
       CashZero(data[j]) => (fate[j] = "staged" /\ j \in StagedIdx)
  /\ (pc = "returned" /\ commitCalls = 1) =>
       \A j \in 1..Len(data) :
         CashZero(data[j]) =>
           /\ \E k \in 1..Len(Added) : Added[k] = NewTransaction(account_id, data[j])
           /\ \E k \in 1..Len(result[1]) :
                result[1][k] = NewTransaction(account_id, data[j])

\* a call given a dividend, an interest record or a CASH purchase, each with
\* quantity 0, has committed and the table holds the row
C25_Witness ==
  /\ pc = "returned"
  /\ commitCalls = 1
  /\ \E j \in 1..Len(data) :
       /\ CashZero(data[j])
       /\ data[j].action \in {"DIVIDEND", "INTEREST"}
       /\ DecimalOrZero(data[j].price) = Dec(0)
       /\ \E k \in 1..Len(Added) : Added[k] = NewTransaction(account_id, data[j])

\* the indices in created_src grow: the created transactions are in input
\* order and no record gave two of them
InInputOrder ==
  \A k, l \in 1..Len(created_src) : k < l => created_src[k] < created_src[l]

\* C26: while the loop runs the objects staged with session.add are the
\* created transactions, one add each, in input order, and no rejected
\* record is among them; on every normal return the one returned value is
\* that list, which is the accepted records of the input in input order, and
\* after a successful commit the rows the call added to the table are
\* exactly the returned ones.
C26_ReturnedAreStaged ==
  /\ pc \in {"loop", "finish"} => pending = created_transactions
  /\ pc \in {"loop", "finish", "returned"} =>
       /\ Len(created_transactions) = addCalls
       /\ Len(created_src) = addCalls
       /\ InInputOrder
       /\ \A k \in 1..Len(created_src) :
            /\ created_src[k] \in Examined
            /\ fate[created_src[k]] = "staged"
            /\ created_transactions[k] = NewTransaction(account_id, data[created_src[k]])
       /\ \A j \in Examined : fate[j] = "skipped" => j \notin StagedIdx
  /\ pc = "returned" =>
       /\ result = <<created_transactions>>
       /\ result[1] = Accepted(account_id, data)
       /\ commitCalls = 1 => Added = result[1]
       /\ commitCalls = 0 => (result[1] = <<>> /\ persisted = before)

\* a call has committed and returned two different transactions, which are
\* the rows it added to the table
C26_Witness ==
  /\ pc = "returned"
  /\ commitCalls = 1
  /\ Len(result[1]) = 2
  /\ result[1][1] # result[1][2]
  /\ Added = result[1]

\* every record of the list was examined and rejected
AllRejected ==
  /\ data # <<>>
  /\ Len(fate) = Len(data)
  /\ \A j \in Examined : fate[j] = "skipped"

\* C27: in one call commit is invoked at most once, and only when every
\* record has been examined and at least one was accepted; a call whose
\* records were all rejected returns an empty list without commit or
\* rollback; rollback is invoked only in the step in which commit fails.
C27_CommitOnceAtEnd ==
  /\ [](/\ commitCalls <= 1
        /\ commitCalls = 1 =>
             /\ i = Len(data) /\ Len(fate) = Len(data)
             /\ addCalls >= 1
             /\ pc \in {"returned", "raised"}
        /\ (pc = "returned" /\ AllRejected) =>
             /\ result = <<<<>>>>
             /\ commitCalls = 0 /\ rollbackCalls = 0
             /\ persisted = before
        /\ rollbackCalls <= commitCalls
        /\ rollbackCalls = 1 =>
             (pc = "raised" /\ exc \in {"IntegrityError", "OperationalError"}))
  /\ [][/\ commitCalls' > commitCalls =>
             (pc = "finish" /\ i = Len(data) /\ created_transactions # <<>>)
        /\ rollbackCalls' > rollbackCalls =>
             (commitCalls' = commitCalls + 1 /\ pc' = "raised")]_vars

\* a call whose two records were both rejected has returned
C27_Witness ==
  /\ pc = "returned"
  /\ AllRejected
  /\ Len(data) = 2
  /\ skipped_count = 2
=============================================================================
